---- MODULE Spec2Model ----
(***************************************************************************)
(* A model of the request-execution core of pewpew: the BlockSender that   *)
(* drains a value sequence into a bounded channel (src/src/request.rs),    *)
(* Builder::build and the streams it installs, the on-demand gate of       *)
(* Endpoint::into_future, the endpoint driver with its ticks, and the      *)
(* logger task with the test-killer it posts to (src/src/providers.rs).    *)
(*                                                                         *)
(* Each subsystem has its own specification over its own variables; the    *)
(* variables of the other subsystems stay at their initial values.         *)
(***************************************************************************)
EXTENDS Integers, Sequences, FiniteSets, TLC

VARIABLES
    \* ---- BlockSender and its target channel (SpecBS)
    target,      \* the channel behind BlockSender.tx: [buf, limit, rx]
    bsValues,    \* BlockSender.values: what the iterator has still to yield
    bsLast,      \* BlockSender.last_value: <<>> (None) or <<v>> (Some(v))
    bsAdded,     \* BlockSender.value_added
    bsCb,        \* BlockSender.cb is Some(..)
    bsRes,       \* what the last poll() the owner made returned
    bsDropped,   \* the sender has been dropped
    bsOrig,      \* history: the sequence the iterator was created with
    bsSent,      \* history: the values whose try_send returned Success, in order
    bsSuccess,   \* history: number of try_send calls that returned Success
    cbCalls,     \* history: the arguments cb was invoked with, in order
    otherSent,   \* history: number of values another producer has sent
    \* ---- Builder::build and the endpoint it returns (SpecBuild)
    cfg,         \* the Builder's inputs: config::Endpoint, start_stream, ctx.providers
    ep,          \* the Endpoint build returned (built = FALSE before the call)
    chRx,        \* per provider channel: the number of receivers alive
    lastPoll,    \* history: the last poll of the pacing stream at index 0
    lastItem,    \* history: the last item a provider or declare stream yielded
    \* ---- the on-demand gate of Endpoint::into_future (SpecOD)
    od,          \* the on-demand streams: [pending, open, delivered]
    zip,         \* the zipped input streams: [always, avail, state, slot, taken]
    gate,        \* the gate's poll_fn: [od_continue, state]
    odLog,       \* history: [received, accepted, unheld, ticks, last, sawEnd]
    \* ---- the endpoint driver and its ticks (Spec)
    chan,        \* the provider channels by name: [buf, limit, rx]
    ticks,       \* the ticks by number: [st, v, ar, out, bs, to, consumed, returned, captured, room]
    driver,      \* the ForEachParallel driver: [state, admitted, whileFull, mark]
    epLog,       \* history: [produced, drained, logged]
    \* ---- the logger task and the test-killer (SpecLog)
    lg,          \* the logger: [to, limit, pretty, kill, counter, keep_logging, state]
    lgChan,      \* the logger's channel: [buf, limit, rx]
    lgOut,       \* the lines written, in order: [id, text]
    killer,      \* the test-killer: [queue, outcome, sent, discarded]
    lgLog,       \* history: [sent, kills, werr, fileErr]
    \* ---- the text forms of a JSON value, util.rs (SpecUtil)
    value,       \* the json::Value the functions are called with
    byRef,       \* what json_value_to_string(&value) returned, once called
    byMove,      \* what json_value_into_string(value) returned, once called
    \* ---- Endpoint::add_start_stream after build (SpecStart)
    startCalls,  \* history: the number of add_start_stream calls made
    \* ---- MultipartBody::as_hyper_body and the body it returns (SpecMultipart)
    mpIn,        \* the call's inputs: [ct, pieces, copy_body_value, file]
    mpRes,       \* the call's outcome: [state, ct, boundary, bytes, streams, closing, body_value]
    mpSink,      \* the body stream and a counting sink: [i, phase, offset, closed, ended, count]
    \* ---- the providers' producer tasks and the streams they feed (SpecFile,
    \*      SpecLiterals, SpecRangeFair, SpecClosed)
    primeTx,     \* per provider: the spawned task [kind, items, orig, i, buffered, sent, state]
    provChan,    \* per provider: its channel [buf, limit, rx]
    provTx,      \* per provider: the holders of a Sender: "provider", "task"
    zipped,      \* the consumer's zipped receiver streams: [order, slot, state]
    zipTicks     \* history: the ticks the consumer got, in order

bsVars == <<target, bsValues, bsLast, bsAdded, bsCb, bsRes, bsDropped,
            bsOrig, bsSent, bsSuccess, cbCalls, otherSent>>

buildVars == <<cfg, ep, chRx, lastPoll, lastItem>>

odVars == <<od, zip, gate, odLog>>

epVars == <<chan, ticks, driver, epLog>>

logVars == <<lg, lgChan, lgOut, killer, lgLog>>

utilVars == <<value, byRef, byMove>>

startVars == <<startCalls>>

mpVars == <<mpIn, mpRes, mpSink>>

provVars == <<primeTx, provChan, provTx, zipped, zipTicks>>

vars == <<bsVars, buildVars, odVars, epVars, logVars,
          utilVars,
          startVars,
          mpVars,
          provVars>>

\* what each subsystem leaves alone
notBS == <<buildVars, odVars, epVars, logVars,
           utilVars,
           startVars,
           mpVars,
           provVars>>

notBuild == <<bsVars, odVars, epVars, logVars,
              utilVars,
              startVars,
              mpVars,
              provVars>>

notOD == <<bsVars, buildVars, epVars, logVars,
           utilVars,
           startVars,
           mpVars,
           provVars>>

notEP == <<bsVars, odVars, lastPoll, lastItem, chRx, logVars,
           utilVars,
           startVars,
           mpVars,
           provVars>>

notLog == <<bsVars, buildVars, odVars, epVars,
            utilVars,
            startVars,
            mpVars,
            provVars>>

notTerm == <<bsVars, epVars, logVars, cfg, ep, lastPoll, lastItem,
             utilVars,
             startVars,
             mpVars,
             provVars>>

notUtil == <<bsVars, buildVars, odVars, epVars, logVars,
             startVars,
             mpVars,
             provVars>>

notStart == <<bsVars, odVars, epVars, logVars, utilVars,
              mpVars,
              provVars>>

notMultipart == <<bsVars, buildVars, odVars, epVars, logVars, utilVars, startVars,
                  provVars>>

notProv == <<bsVars, buildVars, odVars, epVars, lg, lgChan, lgOut, lgLog, utilVars,
             startVars, mpVars>>

-----------------------------------------------------------------------------
(* Bounds of the model *)

\* longest value sequence handed to a BlockSender
MaxSeq == 3
\* the ceiling an Auto limit can grow to
AutoHardCap == 2
\* values another producer may send into the BlockSender's target channel
MaxOther == 1
\* loggers an endpoint's logs section may name
MaxLogs == 1
\* on-demand triggers delivered to the gate
MaxTriggers == 3
\* items a zipped input stream that is not always ready may deliver
MaxAvail == 2
\* ticks an endpoint run admits
MaxTicks == 3
\* values the input provider's own producer sends
MaxTokens == 3
\* capacity of the provider channels of an endpoint run
ChanCap == 1
\* values the producers send to a logger
MaxLogValues == 6
\* items the provider stream of a sentinel-paced endpoint gets
MaxTermItems == 2
\* largest limit a logger is configured with
MaxLimit == 3
\* longest string, longest array and largest number of the JSON values
MaxJson == 2
\* add_start_stream calls made on one endpoint
MaxStartCalls == 2
\* parts of a multipart body
MaxParts == 2
\* items the reader of a file provider yields
MaxFileItems == 3
\* values of a literal provider
MaxLiterals == 2
\* values a consumer takes from a literal provider
MaxConsumed == 4
\* bytes of the file a file part names
MaxFileBytes == 2

-----------------------------------------------------------------------------
(* Options and small helpers *)

None == <<>>
Some(v) == <<v>>

Range(s) == {s[i] : i \in 1..Len(s)}

Min(a, b) == IF a < b THEN a ELSE b

Max(a, b) == IF a < b THEN b ELSE a

\* An item of a value sequence that is Err(TestError) rather than Ok(value)
ErrItem == 0
\* The value the other producer sends (distinct from every BlockSender value)
OtherValue == MaxSeq + 1

-----------------------------------------------------------------------------
(* The bounded channel (crate `channel`, described in the design document) *)

\* Limit::Integer(n)
LimitInteger(n) == [auto |-> FALSE, n |-> n]

\* Limit::auto(): adaptive capacity, floor 1
LimitAuto == [auto |-> TRUE, n |-> 1]

\* channel(limit) -> (Sender, Receiver): empty buffer, one receiver
NewChannel(limit) == [buf |-> <<>>, limit |-> limit, rx |-> 1]

\* sender.no_receivers()
NoReceivers(ch) == ch.rx = 0

\* the channel's current capacity
Capacity(ch) == ch.limit.n

\* sender.try_send(v) -> Success | Full(v back) | Closed.
\* An Auto limit that observes Full below the ceiling grows by one and retries.
TrySend(ch, v) ==
    IF NoReceivers(ch)
    THEN [state |-> "Closed", ch |-> ch, v |-> None]
    ELSE IF Len(ch.buf) < ch.limit.n
    THEN [state |-> "Success", ch |-> [ch EXCEPT !.buf = Append(@, v)], v |-> None]
    ELSE IF ch.limit.auto /\ ch.limit.n < AutoHardCap
    THEN [state |-> "Success",
          ch |-> [ch EXCEPT !.buf = Append(@, v), !.limit.n = @ + 1],
          v |-> None]
    ELSE [state |-> "Full", ch |-> ch, v |-> Some(v)]

\* the receiver takes the oldest value
Receive(ch) == [ch EXCEPT !.buf = Tail(@)]

\* an Auto limit may shrink, never below 1, when the receiver finds the channel empty
Shrink(ch) == [ch EXCEPT !.limit.n = Max(1, @ - 1)]

-----------------------------------------------------------------------------
(* Builder::build (request.rs 150-275) and the streams it installs *)

\* the providers of ctx.providers, in the order of the BTreeMap's keys
ProviderOrder == <<"p", "q">>

Providers == Range(ProviderOrder)

\* the names providers_to_stream can hold; "x" names no provider of ctx.providers
StreamNameOrder == <<"p", "q", "x">>

\* EndpointProvidesSendOptions
SendBehaviors == {"block", "force", "if_not_full", "no_op"}

\* the elements of the ordered list `order` that are in the set `S`, in order
InOrder(order, S) == SelectSeq(order, LAMBDA n : n \in S)

\* an entry of StreamCollection: (bool, stream)
StreamEntry(pacing, kind, name, ar, set) ==
    [pacing |-> pacing, kind |-> kind, name |-> name, ar |-> ar, set |-> set]

\* provides_set: Some(set of the provides senders) without a start stream and with provides
ProvidesSet(c) ==
    IF ~c.start_stream /\ DOMAIN c.provides # {}
    THEN Some(DOMAIN c.provides)
    ELSE None

\* limits: tx.limit() of every provides entry whose send behaviour is Block
BuildLimitsNone(c) == <<>>

BuildLimits(c) ==
    InOrder(ProviderOrder, {k \in DOMAIN c.provides : c.provides[k] = "block"})

\* on_demand_streams: one stream per provides entry when the endpoint is on_demand
BuildOnDemandStreams(c) ==
    IF c.on_demand THEN InOrder(ProviderOrder, DOMAIN c.provides) ELSE <<>>

\* Outgoing::new(select, tx, cb, logger)
Outgoing(tx, behavior, cb, logger) ==
    [tx |-> tx, behavior |-> behavior, cb |-> cb, logger |-> logger]

\* provides: one Outgoing per provides entry, with cb exactly when on_demand
BuildProvides(c) ==
    LET keys == InOrder(ProviderOrder, DOMAIN c.provides)
    IN  [i \in 1..Len(keys) |->
            Outgoing(keys[i], c.provides[keys[i]], c.on_demand, FALSE)]

\* outgoing: one Outgoing per logs entry, without cb
BuildOutgoing(c) ==
    [i \in 1..c.logs |-> Outgoing("logger", "block", FALSE, TRUE)]

\* index 0: the start stream when there is one, else the sentinel when provides_set is Some
BuildPacing(c) ==
    IF c.start_stream
    THEN <<StreamEntry(TRUE, "start", "", None, {})>>
    ELSE IF ProvidesSet(c) # None
    THEN <<StreamEntry(TRUE, "sentinel", "", None, ProvidesSet(c)[1])>>
    ELSE <<>>

\* one stream per name of providers_to_stream that ctx.providers holds; ar is
\* provider.auto_return paired with provider.tx
BuildProviderStreams(c) ==
    LET names == InOrder(StreamNameOrder, c.providers_to_stream \cap Providers)
    IN  [i \in 1..Len(names) |->
            StreamEntry(FALSE, "provider", names[i],
                        IF c.auto_return[names[i]] = None THEN None
                        ELSE Some([send_option |-> c.auto_return[names[i]][1],
                                   tx |-> names[i]]),
                        {})]

\* one stream per declare entry
BuildDeclareStreams(c) ==
    IF c.declare = None THEN <<>>
    ELSE <<StreamEntry(FALSE, "declare", "d", None, c.declare[1])>>

\* the endpoint before build has run
NoEndpoint ==
    [built |-> FALSE, limits |-> <<>>, max_parallel_requests |-> None,
     no_auto_returns |-> FALSE, on_demand_streams |-> <<>>, outgoing |-> <<>>,
     provides |-> <<>>, stream_collection |-> <<>>]

\* Builder::build
Build(c) ==
    [built |-> TRUE,
     limits |-> BuildLimits(c),
     max_parallel_requests |-> c.max_parallel_requests,
     no_auto_returns |-> c.no_auto_returns,
     on_demand_streams |-> BuildOnDemandStreams(c),
     outgoing |-> BuildOutgoing(c),
     provides |-> BuildProvides(c),
     stream_collection |->
         BuildPacing(c) \o BuildProviderStreams(c) \o BuildDeclareStreams(c)]

\* AutoReturn::new(send_option, tx, values)
AutoReturnNew(send_option, tx, values) ==
    [send_behavior |-> send_option, tx |-> tx, values |-> values]

\* the closure of a provider stream: TemplateValue(name, v, ar), where ar is None
\* under no_auto_returns and else the provider's auto_return over the value itself
ProviderStreamItemIfNotFull(st, no_auto_returns, v) ==
    [kind |-> "TemplateValue", name |-> st.name, v |-> v,
     ar |-> IF no_auto_returns \/ st.ar = None THEN <<>>
            ELSE <<AutoReturnNew("if_not_full", st.ar[1].tx, <<v>>)>>]

ProviderStreamItemNoValues(st, no_auto_returns, v) ==
    [kind |-> "TemplateValue", name |-> st.name, v |-> v,
     ar |-> IF no_auto_returns \/ st.ar = None THEN <<>>
            ELSE <<AutoReturnNew(st.ar[1].send_option, st.ar[1].tx, <<>>)>>]

ProviderStreamItem(st, no_auto_returns, v) ==
    [kind |-> "TemplateValue", name |-> st.name, v |-> v,
     ar |-> IF no_auto_returns \/ st.ar = None THEN <<>>
            ELSE <<AutoReturnNew(st.ar[1].send_option, st.ar[1].tx, <<v>>)>>]

\* what the stream of a declare expression yields alongside the value: one
\* AutoReturn per auto-returning provider the expression took a value from
VceIntoStream(c, refs, v) ==
    LET names == InOrder(ProviderOrder, {n \in refs : c.auto_return[n] # None})
    IN  [i \in 1..Len(names) |->
            AutoReturnNew(c.auto_return[names[i]][1], names[i], <<v>>)]

\* the closure of a declare stream: Declare(name, v, returns); build hands the
\* expression ctx.providers and the literal false, never the endpoint's flag
DeclareStreamItem(st, c, v) ==
    [kind |-> "Declare", name |-> st.name, v |-> v,
     ar |-> VceIntoStream(c, st.set, v)]

\* the sentinel's poll: end when every sender of the set has no receivers, else
\* StreamItem::None
SentinelPollAny(set, rx) ==
    IF \E n \in set : rx[n] = 0 THEN "end" ELSE "item"

SentinelPoll(set, rx) ==
    IF \A n \in set : rx[n] = 0 THEN "end" ELSE "item"

\* the receivers the endpoint's own streams hold: provider.rx.clone() per provider stream
OwnReceivers(e, n) ==
    Cardinality({i \in DOMAIN e.stream_collection :
                    /\ e.stream_collection[i].kind = "provider"
                    /\ e.stream_collection[i].name = n})

\* the configurations of the model
ProvidesMaps == UNION {[S -> {"block", "if_not_full"}] : S \in SUBSET Providers}

AutoReturnOptions == {None, Some("block")}

Configs ==
    [start_stream : BOOLEAN,
     provides : ProvidesMaps,
     logs : 0..MaxLogs,
     providers_to_stream : SUBSET Range(StreamNameOrder),
     declare : {None, Some({"p"}), Some(Providers)},
     auto_return : [Providers -> AutoReturnOptions],
     no_auto_returns : BOOLEAN,
     on_demand : BOOLEAN,
     max_parallel_requests : {None}]

NoItem == [kind |-> "None", name |-> "", v |-> 0, ar |-> <<>>]

NoPoll == [res |-> "none", rx |-> [n \in Providers |-> 0]]

\* Builder::build is not part of the run
BuildIdle ==
    /\ cfg = [start_stream |-> FALSE, provides |-> <<>>, logs |-> 0,
              providers_to_stream |-> {}, declare |-> None,
              auto_return |-> [n \in Providers |-> None],
              no_auto_returns |-> FALSE, on_demand |-> FALSE,
              max_parallel_requests |-> None]
    /\ ep = NoEndpoint
    /\ chRx = [n \in Providers |-> 0]
    /\ lastPoll = NoPoll
    /\ lastItem = NoItem

\* Builder::new(endpoint, start_stream).build(ctx)
DoBuild ==
    /\ ~ep.built
    /\ ep' = Build(cfg)
    /\ chRx' = [n \in Providers |-> chRx[n] + OwnReceivers(Build(cfg), n)]
    /\ UNCHANGED <<cfg, lastPoll, lastItem>>

\* the stream at index 0 is polled
PollPacing ==
    /\ ep.built
    /\ ep.stream_collection # <<>>
    /\ ep.stream_collection[1].kind = "sentinel"
    /\ lastPoll' = [res |-> SentinelPoll(ep.stream_collection[1].set, chRx),
                    rx |-> chRx]
    /\ UNCHANGED <<cfg, ep, chRx, lastItem>>

\* a provider stream or a declare stream of the endpoint yields an item
StreamYield ==
    /\ ep.built
    /\ \E i \in DOMAIN ep.stream_collection :
          LET st == ep.stream_collection[i]
          IN  \/ /\ st.kind = "provider"
                 /\ lastItem' = ProviderStreamItem(st, cfg.no_auto_returns, 1)
              \/ /\ st.kind = "declare"
                 /\ lastItem' = DeclareStreamItem(st, cfg, 1)
    /\ UNCHANGED <<cfg, ep, chRx, lastPoll>>

\* a receiver held outside the endpoint is dropped
ReceiverDrop ==
    /\ ep.built
    /\ \E n \in Providers :
          /\ chRx[n] > OwnReceivers(ep, n)
          /\ chRx' = [chRx EXCEPT ![n] = @ - 1]
    /\ UNCHANGED <<cfg, ep, lastPoll, lastItem>>

NextBuild ==
    \/ DoBuild /\ UNCHANGED notBuild
    \/ PollPacing /\ UNCHANGED notBuild
    \/ StreamYield /\ UNCHANGED notBuild
    \/ ReceiverDrop /\ UNCHANGED notBuild

-----------------------------------------------------------------------------
(* BlockSender (request.rs 663-727) *)

\* BlockSender::new: no last value, nothing added yet
BlockSenderNew(values, tx, cb) ==
    [values |-> values, last |-> None, added |-> FALSE, tx |-> tx,
     sent |-> <<>>, success |-> 0, res |-> "New"]

\* poll, the Full arm: a Full try_send hands the value back and the sender keeps it
BlockSenderOnFullDropsValue(s, v) == [s EXCEPT !.res = "NotReady"]

BlockSenderOnFull(s, v) == [s EXCEPT !.last = Some(v), !.res = "NotReady"]

\* poll, the Success arm
BlockSenderOnSuccess(s, tx, v) ==
    [s EXCEPT !.added = TRUE, !.tx = tx, !.sent = Append(@, v), !.success = @ + 1]

\* poll: the loop runs until the sequence is exhausted, yields Err, or try_send
\* returns Closed or Full
RECURSIVE BlockSenderPoll(_)
BlockSenderPoll(s) ==
    IF s.last = None /\ s.values = <<>>
    THEN [s EXCEPT !.res = "Ready"]
    ELSE IF s.last = None /\ Head(s.values) = ErrItem
    THEN [s EXCEPT !.values = Tail(@), !.res = "Err"]
    ELSE LET v == IF s.last # None THEN s.last[1] ELSE Head(s.values)
             s1 == [s EXCEPT !.values = IF s.last # None THEN @ ELSE Tail(@),
                             !.last = None]
             r == TrySend(s1.tx, v)
         IN  CASE r.state = "Closed" -> [s1 EXCEPT !.res = "Ready"]
               [] r.state = "Full" -> BlockSenderOnFull(s1, r.v[1])
               [] r.state = "Success" -> BlockSenderPoll(BlockSenderOnSuccess(s1, r.ch, v))

\* Drop: one more poll, its result ignored, then cb(value_added) when cb is attached
BlockSenderDropCbFirst(s, cb, calls) ==
    LET s2 == BlockSenderPoll(s)
    IN  [s |-> s2, calls |-> IF cb THEN Append(calls, s.added) ELSE calls]

BlockSenderDrop(s, cb, calls) ==
    LET s2 == BlockSenderPoll(s)
    IN  [s |-> s2, calls |-> IF cb THEN Append(calls, s2.added) ELSE calls]

\* the sender as one record, as poll and drop read it
BSSelf == [values |-> bsValues, last |-> bsLast, added |-> bsAdded, tx |-> target,
           sent |-> bsSent, success |-> bsSuccess, res |-> bsRes]

BSStore(s) ==
    /\ bsValues' = s.values
    /\ bsLast' = s.last
    /\ bsAdded' = s.added
    /\ target' = s.tx
    /\ bsSent' = s.sent
    /\ bsSuccess' = s.success

\* the value sequences a select can yield: position i holds the value i or an Err
BSSequences ==
    UNION {[1..n -> BOOLEAN] : n \in 0..MaxSeq}

BSItems(f) == [i \in DOMAIN f |-> IF f[i] THEN i ELSE ErrItem]

BSLimits == {LimitInteger(1), LimitInteger(2), LimitAuto}

\* the state of the BlockSender variables right after BlockSender::new
BSCreated(values, tx, cb) ==
    LET s == BlockSenderNew(values, tx, cb)
    IN  /\ bsOrig = values
        /\ target = s.tx
        /\ bsCb = cb
        /\ bsValues = s.values
        /\ bsLast = s.last
        /\ bsAdded = s.added
        /\ bsRes = s.res
        /\ bsDropped = FALSE
        /\ bsSent = s.sent
        /\ bsSuccess = s.success
        /\ cbCalls = <<>>
        /\ otherSent = 0

\* the BlockSender is not part of the run
BSIdle == BSCreated(<<>>, NewChannel(LimitInteger(1)), FALSE)

\* the owner polls a sender that has not completed yet
BSPoll ==
    /\ ~bsDropped
    /\ bsRes \in {"New", "NotReady"}
    /\ LET s == BlockSenderPoll(BSSelf)
       IN  BSStore(s) /\ bsRes' = s.res
    /\ UNCHANGED <<bsCb, bsDropped, bsOrig, cbCalls, otherSent>>

\* the sender is dropped: pending, completed or errored
BSDrop ==
    /\ ~bsDropped
    /\ LET d == BlockSenderDrop(BSSelf, bsCb, cbCalls)
       IN  BSStore(d.s) /\ cbCalls' = d.calls
    /\ bsDropped' = TRUE
    /\ UNCHANGED <<bsCb, bsRes, bsOrig, otherSent>>

\* a consumer receives the oldest value of the target channel
BSConsumerRecv ==
    /\ target.rx > 0
    /\ target.buf # <<>>
    /\ target' = Receive(target)
    /\ UNCHANGED <<bsValues, bsLast, bsAdded, bsCb, bsRes, bsDropped, bsOrig,
                   bsSent, bsSuccess, cbCalls, otherSent>>

\* the last receiver goes away: the channel is closed to senders
BSReceiverDrop ==
    /\ target.rx > 0
    /\ target' = [target EXCEPT !.rx = @ - 1]
    /\ UNCHANGED <<bsValues, bsLast, bsAdded, bsCb, bsRes, bsDropped, bsOrig,
                   bsSent, bsSuccess, cbCalls, otherSent>>

\* another sender of the same channel sends a value
BSOtherSend ==
    /\ otherSent < MaxOther
    /\ LET r == TrySend(target, OtherValue)
       IN  /\ r.state = "Success"
           /\ target' = r.ch
    /\ otherSent' = otherSent + 1
    /\ UNCHANGED <<bsValues, bsLast, bsAdded, bsCb, bsRes, bsDropped, bsOrig,
                   bsSent, bsSuccess, cbCalls>>

\* an Auto limit shrinks while the channel is empty
BSAutoShrink ==
    /\ target.limit.auto
    /\ target.buf = <<>>
    /\ target.limit.n > 1
    /\ target' = Shrink(target)
    /\ UNCHANGED <<bsValues, bsLast, bsAdded, bsCb, bsRes, bsDropped, bsOrig,
                   bsSent, bsSuccess, cbCalls, otherSent>>

NextBS ==
    \/ BSPoll /\ UNCHANGED notBS
    \/ BSDrop /\ UNCHANGED notBS
    \/ BSConsumerRecv /\ UNCHANGED notBS
    \/ BSReceiverDrop /\ UNCHANGED notBS
    \/ BSOtherSend /\ UNCHANGED notBS
    \/ BSAutoShrink /\ UNCHANGED notBS

-----------------------------------------------------------------------------
(* The on-demand gate of Endpoint::into_future (request.rs 600-631) *)

\* the zipped input streams: the pacing stream at index 0 and one provider stream
ZipStreams == 1..2

\* select_any(on_demand_streams).poll(): a trigger that has been set is taken; with
\* none set the stream is pending while open and ends once every stream has ended
OnDemandPoll(o) ==
    IF o.pending > 0
    THEN [res |-> "Some", od |-> [o EXCEPT !.pending = @ - 1]]
    ELSE IF o.open
    THEN [res |-> "NotReady", od |-> o]
    ELSE [res |-> "None", od |-> o]

\* whether input stream i has an item to yield now
ZipCanYield(z, i) == z.always[i] \/ z.avail[i] > 0

\* zip_all(streams).poll(): every stream that has not yet yielded for the current
\* tick is polled; an item is kept in its slot; a stream error or end ends the
\* poll; the tick is yielded, and the slots emptied, once every slot is full
ZipAllPoll(z) ==
    LET polled == {i \in ZipStreams : ~z.slot[i]}
        got == {i \in polled : ZipCanYield(z, i)}
        taken == [z EXCEPT !.avail = [i \in ZipStreams |->
                                         IF i \in got /\ ~z.always[i]
                                         THEN z.avail[i] - 1 ELSE z.avail[i]],
                           !.slot = [i \in ZipStreams |-> z.slot[i] \/ i \in got],
                           !.taken = [i \in ZipStreams |->
                                         z.taken[i] + (IF i \in got THEN 1 ELSE 0)]]
    IN  IF \E i \in polled \ got : z.state[i] = "failed"
        THEN [res |-> "Err", zip |-> taken]
        ELSE IF \E i \in polled \ got : z.state[i] = "ended"
        THEN [res |-> "None", zip |-> taken]
        ELSE IF \A i \in ZipStreams : taken.slot[i]
        THEN [res |-> "Some",
              zip |-> [taken EXCEPT !.slot = [i \in ZipStreams |-> FALSE]]]
        ELSE [res |-> "NotReady", zip |-> taken]

\* some input stream the zip is about to poll has ended with nothing left to yield
ZipSeesEnd(z) ==
    \E i \in ZipStreams : ~z.slot[i] /\ ~ZipCanYield(z, i) /\ z.state[i] = "ended"

\* od_continue after the zipped poll: kept on NotReady, cleared by anything else
OdContinueKept(res) == TRUE

OdContinueAfterZip(res) == res = "NotReady"

\* how the stream the gate returns moves on with a poll result
GateStateAfterNeverEnds(res) ==
    CASE res = "Err" -> "error"
      [] OTHER -> "running"

GateStateAfter(res) ==
    CASE res = "None" -> "ended"
      [] res = "Err" -> "error"
      [] OTHER -> "running"

\* the gate's poll_fn: the on-demand streams are polled first, on every call; the
\* result decides only while no trigger is held; then the zipped streams are polled
OnDemandGate(g, o, z, l) ==
    LET p == OnDemandPoll(o)
        l1 == [l EXCEPT !.received = @ + (IF p.res = "Some" THEN 1 ELSE 0)]
    IN  IF ~g.od_continue /\ p.res = "None"
        THEN [gate |-> [g EXCEPT !.state = "ended"], od |-> p.od, zip |-> z,
              log |-> [l1 EXCEPT !.last = "OdNone"]]
        ELSE IF ~g.od_continue /\ p.res = "NotReady"
        THEN [gate |-> g, od |-> p.od, zip |-> z,
              log |-> [l1 EXCEPT !.last = "OdNotReady"]]
        ELSE LET q == ZipAllPoll(z)
             IN  [gate |-> [od_continue |-> OdContinueAfterZip(q.res),
                            state |-> GateStateAfter(q.res)],
                  od |-> p.od,
                  zip |-> q.zip,
                  log |-> [l1 EXCEPT
                             !.accepted = @ + (IF g.od_continue THEN 0 ELSE 1),
                             !.unheld = @ \/ ~(g.od_continue \/ p.res = "Some"),
                             !.ticks = @ + (IF q.res = "Some" THEN 1 ELSE 0),
                             !.last = q.res,
                             !.sawEnd = ZipSeesEnd(z)]]

NoLog ==
    [received |-> 0, accepted |-> 0, unheld |-> FALSE, ticks |-> 0, last |-> "New",
     sawEnd |-> FALSE]

\* the gate is not part of the run
ODIdle ==
    /\ od = [pending |-> 0, open |-> FALSE, delivered |-> 0]
    /\ zip = [always |-> [i \in ZipStreams |-> FALSE],
              avail |-> [i \in ZipStreams |-> 0],
              state |-> [i \in ZipStreams |-> "ended"],
              slot |-> [i \in ZipStreams |-> FALSE],
              taken |-> [i \in ZipStreams |-> 0]]
    /\ gate = [od_continue |-> FALSE, state |-> "ended"]
    /\ odLog = NoLog

\* into_future on an endpoint with on-demand streams and provides: od_continue = false
InitGate ==
    /\ od = [pending |-> 0, open |-> TRUE, delivered |-> 0]
    /\ \E a \in [ZipStreams -> BOOLEAN] :
          zip = [always |-> a,
                 avail |-> [i \in ZipStreams |-> 0],
                 state |-> [i \in ZipStreams |-> "open"],
                 slot |-> [i \in ZipStreams |-> FALSE],
                 taken |-> [i \in ZipStreams |-> 0]]
    /\ gate = [od_continue |-> FALSE, state |-> "running"]
    /\ odLog = NoLog

\* the driver polls the stream the gate returns
GatePoll ==
    /\ gate.state = "running"
    /\ LET r == OnDemandGate(gate, od, zip, odLog)
       IN  /\ gate' = r.gate
           /\ od' = r.od
           /\ zip' = r.zip
           /\ odLog' = r.log

\* a consumer's demand sets a trigger on the on-demand streams
ODTrigger ==
    /\ od.open
    /\ od.delivered < MaxTriggers
    /\ od' = [od EXCEPT !.pending = @ + 1, !.delivered = @ + 1]
    /\ UNCHANGED <<zip, gate, odLog>>

\* the on-demand streams end
ODEnd ==
    /\ od.open
    /\ od' = [od EXCEPT !.open = FALSE]
    /\ UNCHANGED <<zip, gate, odLog>>

\* an input stream that is not always ready gets an item to yield
ZipArrive ==
    /\ \E i \in ZipStreams :
          /\ ~zip.always[i]
          /\ zip.state[i] = "open"
          /\ zip.avail[i] < MaxAvail
          /\ zip' = [zip EXCEPT !.avail[i] = @ + 1]
    /\ UNCHANGED <<od, gate, odLog>>

\* an input stream ends, or fails
ZipClose ==
    /\ \E i \in ZipStreams, how \in {"ended", "failed"} :
          /\ zip.state[i] = "open"
          /\ zip' = [zip EXCEPT !.state[i] = how, !.always[i] = FALSE]
    /\ UNCHANGED <<od, gate, odLog>>

NextOD ==
    \/ GatePoll /\ UNCHANGED notOD
    \/ ODTrigger /\ UNCHANGED notOD
    \/ ODEnd /\ UNCHANGED notOD
    \/ ZipArrive /\ UNCHANGED notOD
    \/ ZipClose /\ UNCHANGED notOD

-----------------------------------------------------------------------------
(* The endpoint driver: ForEachParallel over the endpoint's stream, and the ticks
   RequestMaker::send_request runs (request.rs 591-660) *)

TickIds == 1..MaxTicks

\* sender.force_send(v): on a full channel the oldest value is replaced
ForceSend(ch, v) ==
    IF NoReceivers(ch) THEN ch
    ELSE IF Len(ch.buf) < Capacity(ch) THEN [ch EXCEPT !.buf = Append(@, v)]
    ELSE [ch EXCEPT !.buf = Append(Tail(@), v)]

\* a tick that has not been admitted
NoSender == [values |-> <<>>, last |-> None, added |-> FALSE,
             tx |-> NewChannel(LimitInteger(1)), sent |-> <<>>, success |-> 0,
             res |-> "New"]

NoTick == [st |-> "idle", v |-> 0, ar |-> None, out |-> "none", bs |-> NoSender,
           to |-> "", consumed |-> FALSE, returned |-> "no", captured |-> FALSE,
           room |-> FALSE]

\* the ticks in flight: handed to send_request and not yet completed
InFlight(tk) == {t \in TickIds : tk[t].st \in {"sent", "fanout", "returning"}}

\* into_future hands the endpoint's max_parallel_requests and limits to the driver
DriverNoMaxParallel(e) == None

DriverMaxParallel(e) == e.max_parallel_requests

DriverLimits(e) == e.limits

\* ForEachParallel polls its stream for a new tick while the in-flight count is
\* below max_parallel_requests (when set) and every limit's channel is below capacity
ForEachParallelMayPoll(maxp, limits, inflight, ch) ==
    /\ IF maxp = None THEN TRUE ELSE inflight < maxp[1]
    /\ \A i \in DOMAIN limits : Len(ch[limits[i]].buf) < Capacity(ch[limits[i]])

\* some Block-mode provides entry of the configuration has a full target channel
BlockTargetFull(c, ch) ==
    \E k \in DOMAIN c.provides :
        c.provides[k] = "block" /\ Len(ch[k].buf) >= Capacity(ch[k])

\* the provider stream of the endpoint for provider n
ProviderStreamOf(e, n) ==
    LET i == CHOOSE i \in DOMAIN e.stream_collection :
                 e.stream_collection[i].kind = "provider"
                 /\ e.stream_collection[i].name = n
    IN  e.stream_collection[i]

\* an AutoReturn executes: its values go back to tx as its send behaviour says.
\* Block goes through a BlockSender; Force and IfNotFull send once; NoOp sends nothing
AutoReturnSender(ar, ch) == BlockSenderNew(ar.values, ch[ar.tx], FALSE)

AutoReturnOnce(ar, ch) ==
    IF ar.values = <<>> \/ ar.send_behavior = "no_op" THEN ch[ar.tx]
    ELSE IF ar.send_behavior = "force" THEN ForceSend(ch[ar.tx], ar.values[1])
    ELSE TrySend(ch[ar.tx], ar.values[1]).ch

\* the configurations of an endpoint run: input provider p, captures into q
EPConfigs ==
    {c \in [start_stream : {FALSE},
            provides : [{"q"} -> {"block", "if_not_full"}],
            logs : {1},
            providers_to_stream : {{"p"}},
            declare : {None},
            auto_return : [Providers -> {None} \cup {Some(b) : b \in SendBehaviors}],
            no_auto_returns : BOOLEAN,
            on_demand : {FALSE},
            max_parallel_requests : {None, Some(1), Some(2)}] :
        /\ c.auto_return["q"] = None
        /\ c.no_auto_returns => c.auto_return["p"] = Some("block")}

NoDriver == [state |-> "ended", admitted |-> 0, whileFull |-> FALSE, mark |-> None]

NoEpLog == [produced |-> 0, drained |-> 0, logged |-> {}]

\* the endpoint driver is not part of the run
EPIdle ==
    /\ chan = [n \in Providers |-> NewChannel(LimitInteger(1))]
    /\ ticks = [t \in TickIds |-> NoTick]
    /\ driver = NoDriver
    /\ epLog = NoEpLog

\* build, then into_future: p starts full, q empty with one outside receiver
InitDriver ==
    /\ cfg \in EPConfigs
    /\ ep = Build(cfg)
    /\ chan = [n \in Providers |->
                  IF n = "p"
                  THEN [buf |-> [i \in 1..ChanCap |-> i],
                        limit |-> LimitInteger(ChanCap),
                        rx |-> OwnReceivers(Build(cfg), n)]
                  ELSE [buf |-> <<>>, limit |-> LimitInteger(ChanCap), rx |-> 1]]
    /\ ticks = [t \in TickIds |-> NoTick]
    /\ driver = [NoDriver EXCEPT !.state = "running"]
    /\ epLog = [produced |-> ChanCap, drained |-> 0, logged |-> {}]

\* the rx counts as the sentinel probes them
ChanRx == [n \in Providers |-> chan[n].rx]

\* the driver polls the stream and gets a tick: the sentinel yields, the provider
\* stream yields the oldest value of p, and send_request starts on it
EPAdmit ==
    /\ driver.state = "running"
    /\ driver.admitted < MaxTicks
    /\ ForEachParallelMayPoll(DriverMaxParallel(ep), DriverLimits(ep),
                              Cardinality(InFlight(ticks)), chan)
    /\ SentinelPoll(ep.stream_collection[1].set, ChanRx) = "item"
    /\ chan["p"].buf # <<>>
    /\ LET t == driver.admitted + 1
           item == ProviderStreamItem(ProviderStreamOf(ep, "p"), ep.no_auto_returns,
                                      Head(chan["p"].buf))
       IN  /\ ticks' = [ticks EXCEPT ![t] = [NoTick EXCEPT !.st = "sent",
                                                          !.v = item.v,
                                                          !.ar = item.ar]]
           /\ chan' = [chan EXCEPT !["p"] = Receive(@)]
           /\ driver' = [driver EXCEPT !.admitted = t,
                                       !.whileFull = @ \/ BlockTargetFull(cfg, chan)]
    /\ UNCHANGED <<cfg, ep, epLog>>

\* the driver polls the stream and the sentinel ends it
EPStreamEnd ==
    /\ driver.state = "running"
    /\ ForEachParallelMayPoll(DriverMaxParallel(ep), DriverLimits(ep),
                              Cardinality(InFlight(ticks)), chan)
    /\ SentinelPoll(ep.stream_collection[1].set, ChanRx) = "end"
    /\ driver' = [driver EXCEPT !.state = "ended"]
    /\ UNCHANGED <<cfg, ep, chan, ticks, epLog>>

\* a BlockSender of tick t has been polled: where the tick stands afterwards
AfterSenderPoll(tk, s, pending) ==
    [tk EXCEPT !.bs = s,
               !.st = IF s.res = "NotReady" THEN pending ELSE "done"]

\* the response arrives in time: the response handler consumes the tick's AutoReturn,
\* logs the value, and sends it to the provides target as the send behaviour says
EPRespond ==
    /\ \E t \in TickIds :
          /\ ticks[t].st = "sent"
          /\ LET o == ep.provides[1]
                 s == BlockSenderPoll(BlockSenderNew(<<t>>, chan[o.tx], o.cb))
                 r == TrySend(chan[o.tx], t)
                 tk == [ticks[t] EXCEPT !.out = "ok", !.consumed = @ \/ (ticks[t].ar # None),
                                        !.to = o.tx]
             IN  IF o.behavior = "block"
                 THEN /\ ticks' = [ticks EXCEPT ![t] =
                                      [AfterSenderPoll(tk, s, "fanout") EXCEPT
                                          !.captured = s.success > 0]]
                      /\ chan' = [chan EXCEPT ![o.tx] = s.tx]
                 ELSE /\ ticks' = [ticks EXCEPT ![t] =
                                      [tk EXCEPT !.st = "done",
                                                 !.captured = r.state = "Success"]]
                      /\ chan' = [chan EXCEPT ![o.tx] = r.ch]
          /\ epLog' = [epLog EXCEPT !.logged = @ \cup {t}]
    /\ UNCHANGED <<cfg, ep, driver>>

\* a pending BlockSender of a tick is polled again once its channel can take a value
EPSenderPoll ==
    /\ \E t \in TickIds :
          /\ ticks[t].st \in {"fanout", "returning"}
          /\ LET n == ticks[t].to
                 s == BlockSenderPoll([ticks[t].bs EXCEPT !.tx = chan[n]])
             IN  /\ s.res # "NotReady"
                 /\ ticks' = [ticks EXCEPT ![t] =
                                 [AfterSenderPoll(@, s, @.st) EXCEPT
                                     !.captured = @ \/ (ticks[t].st = "fanout" /\ s.success > 0),
                                     !.returned = IF ticks[t].st = "returning"
                                                  THEN (IF ticks[t].v \in Range(s.sent)
                                                        THEN "inserted" ELSE "dropped")
                                                  ELSE @]]
                 /\ chan' = [chan EXCEPT ![n] = s.tx]
    /\ UNCHANGED <<cfg, ep, driver, epLog>>

\* the request times out, or fails with another recoverable error: nothing is
\* captured or logged, and the tick's AutoReturn executes
EPFail ==
    /\ \E t \in TickIds, kind \in {"timeout", "error"} :
          /\ ticks[t].st = "sent"
          /\ LET tk == [ticks[t] EXCEPT !.out = kind,
                                        !.room = Len(chan["p"].buf) < Capacity(chan["p"])]
             IN  IF tk.ar = None
                 THEN /\ ticks' = [ticks EXCEPT ![t] = [tk EXCEPT !.st = "done"]]
                      /\ chan' = chan
                 ELSE LET ar == tk.ar[1]
                          s == BlockSenderPoll(AutoReturnSender(ar, chan))
                          once == AutoReturnOnce(ar, chan)
                      IN  IF ar.send_behavior = "block"
                          THEN /\ ticks' = [ticks EXCEPT ![t] =
                                               [AfterSenderPoll([tk EXCEPT !.to = ar.tx],
                                                                s, "returning") EXCEPT
                                                   !.returned =
                                                       IF s.res = "NotReady" THEN "no"
                                                       ELSE IF tk.v \in Range(s.sent)
                                                       THEN "inserted" ELSE "dropped"]]
                               /\ chan' = [chan EXCEPT ![ar.tx] = s.tx]
                          ELSE /\ ticks' = [ticks EXCEPT ![t] =
                                               [tk EXCEPT !.st = "done",
                                                          !.returned =
                                                              IF once # chan[ar.tx]
                                                                 /\ tk.v \in Range(once.buf)
                                                              THEN "inserted" ELSE "dropped"]]
                               /\ chan' = [chan EXCEPT ![ar.tx] = once]
    /\ UNCHANGED <<cfg, ep, driver, epLog>>

\* the input provider's own producer sends its next value
EPProduce ==
    /\ epLog.produced < MaxTokens
    /\ LET r == TrySend(chan["p"], epLog.produced + 1)
       IN  /\ r.state = "Success"
           /\ chan' = [chan EXCEPT !["p"] = r.ch]
    /\ epLog' = [epLog EXCEPT !.produced = @ + 1]
    /\ UNCHANGED <<cfg, ep, ticks, driver>>

\* a consumer outside the endpoint receives the oldest captured value; mark keeps
\* the ticks admitted so far when the value is taken from a full channel
EPConsume ==
    /\ chan["q"].rx > 0
    /\ chan["q"].buf # <<>>
    /\ chan' = [chan EXCEPT !["q"] = Receive(@)]
    /\ epLog' = [epLog EXCEPT !.drained = @ + 1]
    /\ driver' = [driver EXCEPT !.mark = IF Len(chan["q"].buf) >= Capacity(chan["q"])
                                         THEN Some(driver.admitted) ELSE None]
    /\ UNCHANGED <<cfg, ep, ticks>>

\* the consumer of the captured values goes away
EPReceiverDrop ==
    /\ chan["q"].rx > 0
    /\ chan' = [chan EXCEPT !["q"].rx = @ - 1]
    /\ UNCHANGED <<cfg, ep, ticks, driver, epLog>>

Next ==
    \/ EPAdmit /\ UNCHANGED notEP
    \/ EPStreamEnd /\ UNCHANGED notEP
    \/ EPRespond /\ UNCHANGED notEP
    \/ EPSenderPoll /\ UNCHANGED notEP
    \/ EPFail /\ UNCHANGED notEP
    \/ EPProduce /\ UNCHANGED notEP
    \/ EPConsume /\ UNCHANGED notEP
    \/ EPReceiverDrop /\ UNCHANGED notEP

-----------------------------------------------------------------------------
(* The logger task (providers.rs 151-299) and the test-killer it posts to *)

\* let (tx, rx) = channel::channel(Limit::Integer(5))
LoggerChannelLimit == 5

-----------------------------------------------------------------------------
(* JSON values (serde_json) and their text forms (util.rs 9-21) *)

\* a json::Value: its variant and the payload of that variant
JsonValue(kind, b, n, s, items, keys) ==
    [kind |-> kind, b |-> b, n |-> n, s |-> s, items |-> items, keys |-> keys]

\* json::Value::Null, Bool, Number (unsigned), String (a sequence of characters),
\* Array, and Object (keys[i] is the key of items[i])
JNull == JsonValue("null", FALSE, 0, <<>>, <<>>, <<>>)

JBool(b) == JsonValue("bool", b, 0, <<>>, <<>>, <<>>)

JNumber(n) == JsonValue("number", FALSE, n, <<>>, <<>>, <<>>)

JString(s) == JsonValue("string", FALSE, 0, s, <<>>, <<>>)

JArray(items) == JsonValue("array", FALSE, 0, <<>>, items, <<>>)

JObject(keys, items) == JsonValue("object", FALSE, 0, <<>>, items, keys)

DigitChars == <<"0", "1", "2", "3", "4", "5", "6", "7", "8", "9">>

\* the decimal text of an unsigned number
RECURSIVE Digits(_)
Digits(n) ==
    IF n < Len(DigitChars)
    THEN <<DigitChars[n + 1]>>
    ELSE Digits(n \div Len(DigitChars)) \o <<DigitChars[(n % Len(DigitChars)) + 1]>>

\* the characters of a string as JSON text writes them between the quotes
RECURSIVE Escape(_)
Escape(s) ==
    IF s = <<>> THEN <<>>
    ELSE (IF Head(s) \in {"\"", "\\"} THEN <<"\\", Head(s)>> ELSE <<Head(s)>>)
         \o Escape(Tail(s))

\* the value number n that the producers send to a logger: odd numbers are strings,
\* even numbers are objects
LogValue(n) ==
    IF n % 2 = 1
    THEN JString(<<"v">> \o Digits(n))
    ELSE JObject(<<<<"i", "d">>>>, <<JNumber(n)>>)

\* the number of a value sent to a logger
LogId(v) == CHOOSE n \in 1..(MaxLogValues + 1) : LogValue(n) = v

\* v.is_string()
IsString(v) == v.kind = "string"

\* indentation of the pretty form: two spaces per level
RECURSIVE Indent(_)
Indent(depth) == IF depth = 0 THEN <<>> ELSE <<" ", " ">> \o Indent(depth - 1)

RECURSIVE JsonToString(_)
RECURSIVE CompactMembers(_, _)
\* the members of an array or object from position i on, separated by commas
CompactMembers(v, i) ==
    IF i > Len(v.items) THEN <<>>
    ELSE (IF i > 1 THEN <<",">> ELSE <<>>)
         \o (IF v.kind = "object"
             THEN <<"\"">> \o Escape(v.keys[i]) \o <<"\"", ":">>
             ELSE <<>>)
         \o JsonToString(v.items[i])
         \o CompactMembers(v, i + 1)

\* format!("{}", v) and v.to_string(): the compact JSON text, a string in quotes
JsonToString(v) ==
    CASE v.kind = "null" -> <<"n", "u", "l", "l">>
      [] v.kind = "bool" -> IF v.b THEN <<"t", "r", "u", "e">>
                                   ELSE <<"f", "a", "l", "s", "e">>
      [] v.kind = "number" -> Digits(v.n)
      [] v.kind = "string" -> <<"\"">> \o Escape(v.s) \o <<"\"">>
      [] v.kind = "array" -> <<"[">> \o CompactMembers(v, 1) \o <<"]">>
      [] v.kind = "object" -> <<"{">> \o CompactMembers(v, 1) \o <<"}">>

RECURSIVE Pretty(_, _)
RECURSIVE PrettyMembers(_, _, _)
\* the members of an array or object from position i on, one per line
PrettyMembers(v, i, depth) ==
    IF i > Len(v.items) THEN <<>>
    ELSE (IF i > 1 THEN <<",">> ELSE <<>>)
         \o <<"\n">> \o Indent(depth)
         \o (IF v.kind = "object"
             THEN <<"\"">> \o Escape(v.keys[i]) \o <<"\"", ":", " ">>
             ELSE <<>>)
         \o Pretty(v.items[i], depth)
         \o PrettyMembers(v, i + 1, depth)

\* the pretty JSON text of v at a nesting depth
Pretty(v, depth) ==
    IF v.kind \in {"array", "object"} /\ v.items # <<>>
    THEN <<(IF v.kind = "array" THEN "[" ELSE "{")>>
         \o PrettyMembers(v, 1, depth + 1)
         \o <<"\n">> \o Indent(depth)
         \o <<(IF v.kind = "array" THEN "]" ELSE "}")>>
    ELSE JsonToString(v)

\* format!("{:#}", v): the pretty JSON text, multi-line for a non-empty array or
\* object, a string in quotes
ToStringPretty(v) == Pretty(v, 0)

\* util::json_value_to_string: the string itself, else the compact JSON text
JsonValueToStringQuoted(v) == JsonToString(v)

JsonValueToString(v) ==
    IF IsString(v) THEN v.s ELSE JsonToString(v)

\* util::json_value_into_string: the string itself, else the compact JSON text
JsonValueIntoString(v) ==
    IF IsString(v) THEN v.s ELSE JsonToString(v)

-----------------------------------------------------------------------------
(* The logger's closures (providers.rs 160-293) *)

\* what eprintln!/println! is handed by the stderr and stdout loggers
ConsoleLine(pretty, v) ==
    IF pretty /\ ~IsString(v) THEN ToStringPretty(v) ELSE JsonValueIntoString(v)

\* what writeln! is handed by the file logger
FileLine(pretty, v) ==
    IF pretty THEN ToStringPretty(v) ELSE JsonToString(v)

\* the match on limit that ends the closure: "kill" sends KilledByLogger, "stop"
\* clears keep_logging, "go" does neither
LimitMatchNoKillWithoutLimit(limit, kill, counter) ==
    IF limit # None /\ counter >= limit[1]
    THEN (IF kill THEN "kill" ELSE "stop")
    ELSE "go"

LimitMatch(limit, kill, counter) ==
    IF limit # None /\ counter >= limit[1]
    THEN (IF kill THEN "kill" ELSE "stop")
    ELSE IF limit = None /\ kill THEN "kill"
    ELSE "go"

\* the closure of the stderr and stdout loggers on value v: what it writes, whether
\* it sends KilledByLogger, and the logger afterwards; it never fails
LoggerConsoleStep(l, v) ==
    LET counter == l.counter + 1
        m == LimitMatch(l.limit, l.kill, counter)
    IN  [lg |-> [l EXCEPT !.counter = counter,
                          !.keep_logging = IF m = "stop" THEN FALSE ELSE @],
         wrote |-> IF l.keep_logging
                   THEN <<[id |-> LogId(v), text |-> ConsoleLine(l.pretty, v)]>>
                   ELSE <<>>,
         kill |-> m = "kill",
         err |-> FALSE,
         werr |-> FALSE]

\* the closure of the file logger on value v, the write succeeding (ok) or not:
\* the result of the write is returned on the branches that do not kill, and
\* an Err ends the task
LoggerFileStep(l, v, ok) ==
    LET counter == l.counter + 1
        m == LimitMatch(l.limit, l.kill, counter)
        failed == l.keep_logging /\ ~ok
    IN  [lg |-> [l EXCEPT !.counter = counter,
                          !.keep_logging = IF m = "stop" THEN FALSE ELSE @],
         wrote |-> IF l.keep_logging /\ ok
                   THEN <<[id |-> LogId(v), text |-> FileLine(l.pretty, v)]>>
                   ELSE <<>>,
         kill |-> m = "kill",
         err |-> failed /\ m # "kill",
         werr |-> failed]

\* for_each hands the closure every value the channel yields while the task runs
LoggerReceivesWhileLogging(l) == l.state = "running" /\ l.keep_logging

LoggerReceives(l) == l.state = "running"

\* the test-killer: messages are queued in the order sent; the supervisor takes the
\* first one as the outcome of the run and discards the later ones
KillerMessage(k, from, kind) == [n |-> k.sent + 1, from |-> from, kind |-> kind]

KillerSend(k, from, kind) ==
    [k EXCEPT !.queue = Append(@, KillerMessage(k, from, kind)), !.sent = @ + 1]

KillerTakeLast(k) ==
    [k EXCEPT !.queue = Tail(@), !.outcome = Some(Head(k.queue)),
              !.discarded = @ + (IF k.outcome = None THEN 0 ELSE 1)]

KillerTake(k) ==
    IF k.outcome = None
    THEN [k EXCEPT !.queue = Tail(@), !.outcome = Some(Head(k.queue))]
    ELSE [k EXCEPT !.queue = Tail(@), !.discarded = @ + 1]

NoKiller == [queue |-> <<>>, outcome |-> None, sent |-> 0, discarded |-> 0]

NoLgLog == [sent |-> 0, kills |-> 0, werr |-> None, fileErr |-> FALSE]

Destinations == {"stderr", "stdout", "file"}

Limits == {None} \cup {Some(n) : n \in 0..MaxLimit}

\* the logger is not part of the run
LogIdle ==
    /\ lg = [to |-> "stderr", limit |-> None, pretty |-> FALSE, kill |-> FALSE,
             counter |-> 0, keep_logging |-> TRUE, state |-> "exited"]
    /\ lgChan = [NewChannel(LimitInteger(LoggerChannelLimit)) EXCEPT !.rx = 0]
    /\ lgOut = <<>>
    /\ killer = NoKiller
    /\ lgLog = NoLgLog

\* providers::logger returns: counter = 0, keep_logging = true, the task spawned;
\* the file logger has its file still to create
InitLogger ==
    /\ \E to \in Destinations, limit \in Limits, pretty \in BOOLEAN, kill \in BOOLEAN :
          lg = [to |-> to, limit |-> limit, pretty |-> pretty, kill |-> kill,
                counter |-> 0, keep_logging |-> TRUE,
                state |-> IF to = "file" THEN "creating" ELSE "running"]
    /\ lgChan = NewChannel(LimitInteger(LoggerChannelLimit))
    /\ lgOut = <<>>
    /\ killer = NoKiller
    /\ lgLog = NoLgLog

\* a producer sends its next value to the logger, unless the channel refuses it
LogSend ==
    /\ lgLog.sent < MaxLogValues
    /\ LET r == TrySend(lgChan, LogValue(lgLog.sent + 1))
       IN  /\ r.state = "Success"
           /\ lgChan' = r.ch
    /\ lgLog' = [lgLog EXCEPT !.sent = @ + 1]
    /\ UNCHANGED <<lg, lgOut, killer>>

\* TokioFile::create succeeds, or fails: the error goes to the test-killer as
\* TestError::Other and the task ends, dropping rx
LogCreate ==
    /\ lg.state = "creating"
    /\ \E ok \in BOOLEAN :
          IF ok
          THEN /\ lg' = [lg EXCEPT !.state = "running"]
               /\ UNCHANGED <<lgChan, killer>>
          ELSE /\ lg' = [lg EXCEPT !.state = "exited"]
               /\ lgChan' = [lgChan EXCEPT !.rx = 0]
               /\ killer' = KillerSend(killer, "logger", "Other")
    /\ UNCHANGED <<lgOut, lgLog>>

\* the logger task takes the oldest value of its channel and runs the closure on it
LogStep ==
    /\ LoggerReceives(lg)
    /\ lgChan.buf # <<>>
    /\ \E ok \in BOOLEAN :
          /\ (lg.to # "file" \/ ~lg.keep_logging) => ok
          /\ LET v == Head(lgChan.buf)
                 r == IF lg.to = "file" THEN LoggerFileStep(lg, v, ok)
                      ELSE LoggerConsoleStep(lg, v)
             IN  /\ lg' = [r.lg EXCEPT !.state = IF r.err THEN "exited" ELSE @]
                 /\ lgChan' = [Receive(lgChan) EXCEPT !.rx = IF r.err THEN 0 ELSE @]
                 /\ lgOut' = lgOut \o r.wrote
                 /\ killer' = IF r.kill THEN KillerSend(killer, "logger", "KilledByLogger")
                              ELSE IF r.err THEN KillerSend(killer, "logger", "Other")
                              ELSE killer
                 /\ lgLog' = [lgLog EXCEPT
                                 !.kills = @ + (IF r.kill THEN 1 ELSE 0),
                                 !.werr = IF @ = None /\ r.werr
                                          THEN Some(r.lg.counter) ELSE @]

\* a file provider's reader fails: prime_tx posts the error to the test-killer, once
FileProviderError ==
    /\ ~lgLog.fileErr
    /\ killer' = KillerSend(killer, "file", "Other")
    /\ lgLog' = [lgLog EXCEPT !.fileErr = TRUE]
    /\ UNCHANGED <<lg, lgChan, lgOut>>

\* the supervisor takes the next message of the test-killer
KillerReceive ==
    /\ killer.queue # <<>>
    /\ killer' = KillerTake(killer)
    /\ UNCHANGED <<lg, lgChan, lgOut, lgLog>>

NextLog ==
    \/ LogSend /\ UNCHANGED notLog
    \/ LogCreate /\ UNCHANGED notLog
    \/ LogStep /\ UNCHANGED notLog
    \/ FileProviderError /\ UNCHANGED notLog
    \/ KillerReceive /\ UNCHANGED notLog

-----------------------------------------------------------------------------
(* The stream of an endpoint paced by the sentinel: build, then the stream
   Endpoint::into_future polls (request.rs 200-213, 600-631) *)

\* the endpoints: provides q, no start stream, input provider p, on_demand or not
TermConfigs ==
    [start_stream : {FALSE},
     provides : [{"q"} -> {"block", "if_not_full"}],
     logs : {0},
     providers_to_stream : {{"p"}},
     declare : {None},
     auto_return : {[n \in Providers |-> None]},
     no_auto_returns : {FALSE},
     on_demand : BOOLEAN,
     max_parallel_requests : {None}]

\* the stream is gated when the endpoint has on-demand streams and provides
UsesGate(e) == e.on_demand_streams # <<>> /\ e.provides # <<>>

\* the zipped streams as the next poll finds them: input stream 1 is the sentinel,
\* which yields an item or ends as its poll_fn says
SentinelView(z, e, rx) ==
    LET res == SentinelPoll(e.stream_collection[1].set, rx)
    IN  [z EXCEPT !.always[1] = (res = "item"),
                  !.state[1] = IF res = "end" THEN "ended" ELSE "open"]

\* Either::B(zip_all(streams)): the zipped streams polled without a gate
UngatedPoll(g, o, z, l) ==
    LET q == ZipAllPoll(z)
    IN  [gate |-> [od_continue |-> FALSE, state |-> GateStateAfter(q.res)],
         od |-> o,
         zip |-> q.zip,
         log |-> [l EXCEPT !.ticks = @ + (IF q.res = "Some" THEN 1 ELSE 0),
                           !.last = q.res,
                           !.sawEnd = ZipSeesEnd(z)]]

InitTermStream ==
    /\ cfg \in TermConfigs
    /\ ep = Build(cfg)
    /\ chRx = [n \in Providers |-> 1]
    /\ lastPoll = NoPoll
    /\ lastItem = NoItem
    /\ od = [pending |-> 0, open |-> cfg.on_demand, delivered |-> 0]
    /\ zip = [always |-> <<TRUE, FALSE>>,
              avail |-> [i \in ZipStreams |-> 0],
              state |-> [i \in ZipStreams |-> "open"],
              slot |-> [i \in ZipStreams |-> FALSE],
              taken |-> [i \in ZipStreams |-> 0]]
    /\ gate = [od_continue |-> FALSE, state |-> "running"]
    /\ odLog = NoLog

\* the driver polls the endpoint's stream
TermPoll ==
    /\ gate.state = "running"
    /\ LET z == SentinelView(zip, ep, chRx)
           r == IF UsesGate(ep) THEN OnDemandGate(gate, od, z, odLog)
                ELSE UngatedPoll(gate, od, z, odLog)
       IN  /\ gate' = r.gate
           /\ od' = r.od
           /\ zip' = r.zip
           /\ odLog' = r.log
    /\ UNCHANGED chRx

\* a receiver of the provides channel goes away
TermReceiverDrop ==
    /\ chRx["q"] > 0
    /\ chRx' = [chRx EXCEPT !["q"] = @ - 1]
    /\ UNCHANGED <<od, zip, gate, odLog>>

\* a consumer of the provides channel sets a trigger on the on-demand streams
TermTrigger ==
    /\ UsesGate(ep)
    /\ chRx["q"] > 0
    /\ od.open
    /\ od.delivered < MaxTriggers
    /\ od' = [od EXCEPT !.pending = @ + 1, !.delivered = @ + 1]
    /\ UNCHANGED <<zip, gate, odLog, chRx>>

\* the on-demand streams end
TermOnDemandEnd ==
    /\ UsesGate(ep)
    /\ od.open
    /\ od' = [od EXCEPT !.open = FALSE]
    /\ UNCHANGED <<zip, gate, odLog, chRx>>

\* the provider stream gets an item to yield
TermArrive ==
    /\ zip.state[2] = "open"
    /\ zip.taken[2] + zip.avail[2] < MaxTermItems
    /\ zip' = [zip EXCEPT !.avail[2] = @ + 1]
    /\ UNCHANGED <<od, gate, odLog, chRx>>

NextTerm ==
    \/ TermPoll /\ UNCHANGED notTerm
    \/ TermReceiverDrop /\ UNCHANGED notTerm
    \/ TermTrigger /\ UNCHANGED notTerm
    \/ TermOnDemandEnd /\ UNCHANGED notTerm
    \/ TermArrive /\ UNCHANGED notTerm

-----------------------------------------------------------------------------
(* util::json_value_to_string and util::json_value_into_string called on a value
   (util.rs 9-21) *)

\* the characters strings are made of: a letter and the double quote
JsonChars == {"a", "\""}

JsonStrings == UNION {[1..n -> JsonChars] : n \in 0..MaxJson}

JsonScalars ==
    {JNull} \cup {JBool(b) : b \in BOOLEAN} \cup {JNumber(n) : n \in 0..MaxJson}
            \cup {JString(s) : s \in JsonStrings}

\* the values of the unit test json_value_to_string_works (util.rs 31-44)
TestObject == JObject(<<<<"f", "o", "o">>>>, <<JNumber(123)>>)

TestObjectText == <<"{", "\"", "f", "o", "o", "\"", ":", "1", "2", "3", "}">>

TestString == JString(<<"a", "s", "d", "f", " ", "\"", " ", "f", "o", "o">>)

TestStringText == <<"a", "s", "d", "f", " ", "\"", " ", "f", "o", "o">>

TestArray ==
    JArray(<<JString(<<"f", "o", "o">>), JNumber(1), JNumber(2), JNumber(3), JNull>>)

TestArrayText ==
    <<"[", "\"", "f", "o", "o", "\"", ",", "1", ",", "2", ",", "3", ",",
      "n", "u", "l", "l", "]">>

\* the values the functions are called with
JsonValues ==
    JsonScalars
        \cup {JArray(items) : items \in UNION {[1..n -> JsonScalars] : n \in 0..MaxJson}}
        \cup {JObject(<<k>>, <<v>>) : k \in JsonStrings, v \in JsonScalars}
        \cup {TestObject, TestString, TestArray}

\* neither function is part of the run
UtilIdle ==
    /\ value = JNull
    /\ byRef = Some(JsonValueToString(JNull))
    /\ byMove = Some(JsonValueIntoString(JNull))

InitUtilCalls ==
    /\ value \in JsonValues
    /\ byRef = None
    /\ byMove = None

\* json_value_to_string(&value)
UtilToString ==
    /\ byRef = None
    /\ byRef' = Some(JsonValueToString(value))
    /\ UNCHANGED <<value, byMove>>

\* json_value_into_string(value)
UtilIntoString ==
    /\ byMove = None
    /\ byMove' = Some(JsonValueIntoString(value))
    /\ UNCHANGED <<value, byRef>>

NextUtil ==
    \/ UtilToString /\ UNCHANGED notUtil
    \/ UtilIntoString /\ UNCHANGED notUtil

-----------------------------------------------------------------------------
(* Endpoint::add_start_stream (request.rs 577-588) *)

\* the entry add_start_stream makes of the stream of call number n
StartStreamEntry(n) == StreamEntry(TRUE, "start", DigitChars[n + 1], None, {})

\* add_start_stream: the stream replaces the one at index 0 when that is flagged
\* true, and is pushed at the end otherwise
AddStartStreamTo(streams, entry) ==
    IF streams # <<>> /\ streams[1].pacing
    THEN [streams EXCEPT ![1] = entry]
    ELSE Append(streams, entry)

\* no add_start_stream call is part of the run
StartIdle == startCalls = 0

\* endpoint.add_start_stream(stream)
AddStartStream ==
    /\ ep.built
    /\ startCalls < MaxStartCalls
    /\ startCalls' = startCalls + 1
    /\ ep' = [ep EXCEPT !.stream_collection =
                            AddStartStreamTo(@, StartStreamEntry(startCalls + 1))]
    /\ UNCHANGED <<cfg, chRx, lastPoll, lastItem>>

NextStart ==
    \/ DoBuild /\ UNCHANGED notBuild
    \/ AddStartStream /\ UNCHANGED notStart

-----------------------------------------------------------------------------
(* MultipartBody::as_hyper_body and create_file_hyper_body (request.rs 284-499).
   A byte string is a sequence of text fragments; its length is the sum of the
   fragments' lengths. *)

\* .take(20): the boundary is 20 random alphanumerics
BoundaryLen == 20

\* the boundaries the random generator can give
Boundaries == {"aaaaaaaaaaaaaaaaaaaa", "Zy0Xw1Vu2Ts3Rq4Po5Nm"}

\* the length of a byte string
RECURSIVE ByteLen(_)
ByteLen(bytes) == IF bytes = <<>> THEN 0 ELSE Len(Head(bytes)) + ByteLen(Tail(bytes))

\* str::starts_with, fragment by fragment
StartsWith(str, prefix) ==
    Len(str) >= Len(prefix) /\ SubSeq(str, 1, Len(prefix)) = prefix

\* a byte of a header value that is not visible ASCII
ObsText == "<80>"

\* HeaderValue::to_str succeeds on visible ASCII only
ToStrOk(v) == ObsText \notin Range(v)

\* HeaderValue::from_str refuses control characters
FromStrOk(v) == "\n" \notin Range(v)

\* HeaderName::from_bytes gives the name in lower case
HeaderNameFromBytes(k) == IF k = "Content-Disposition" THEN "content-disposition" ELSE k

\* the content-type header after the call's first block: None when to_str failed
\* and the call returns an error, else the rewritten value and is_form
ContentTypeRewrite(entry, boundary) ==
    LET content_type == IF entry = None THEN <<"multipart/", "form-data">> ELSE entry[1]
    IN  IF ~ToStrOk(content_type)
        THEN [ok |-> FALSE, ct |-> Some(content_type), is_form |-> FALSE]
        ELSE IF StartsWith(content_type, <<"multipart/">>)
        THEN [ok |-> TRUE,
              ct |-> Some(content_type \o <<";boundary=", boundary>>),
              is_form |-> StartsWith(content_type, <<"multipart/", "form-data">>)]
        ELSE [ok |-> TRUE,
              ct |-> Some(<<"multipart/", "form-data", ";boundary=", boundary>>),
              is_form |-> TRUE]

\* closing_boundary
ClosingBoundary(boundary) == <<"\r\n--", boundary, "--\r\n">>

\* the header lines of a piece, from header i on
RECURSIVE PieceHeaders(_, _)
PieceHeaders(headers, i) ==
    IF i > Len(headers) THEN <<>>
    ELSE <<"\r\n", HeaderNameFromBytes(headers[i].k), ": ">> \o headers[i].v
         \o PieceHeaders(headers, i + 1)

\* has_content_disposition after the loop over the headers
HasContentDisposition(headers) ==
    \E i \in DOMAIN headers : HeaderNameFromBytes(headers[i].k) = "content-disposition"

\* the content-disposition value made up for a piece of a form
FormDisposition(mp) ==
    IF mp.is_file
    THEN <<"form-data; name=\"", mp.name, "\"; filename=\"">> \o mp.body \o <<"\"">>
    ELSE <<"form-data; name=\"", mp.name, "\"">>

\* piece_data up to and including the blank line
PieceHead(i, mp, is_form, boundary) ==
    <<(IF i = 1 THEN "--" ELSE "\r\n--"), boundary>>
        \o PieceHeaders(mp.headers, 1)
        \o (IF is_form /\ ~HasContentDisposition(mp.headers)
            THEN <<"\r\ncontent-disposition: ">> \o FormDisposition(mp)
            ELSE <<>>)
        \o <<"\r\n\r\n">>

\* the closure run on piece i fails when a header value or the made-up
\* content-disposition is refused by HeaderValue::from_str
PieceOk(mp, is_form) ==
    /\ \A j \in DOMAIN mp.headers : FromStrOk(mp.headers[j].v)
    /\ (is_form /\ ~HasContentDisposition(mp.headers)) => FromStrOk(FormDisposition(mp))

\* create_file_hyper_body: the file's length from its metadata and a stream over
\* the file; an error when the file cannot be opened
CreateFileHyperBody(file) ==
    IF file = None THEN [ok |-> FALSE, bytes |-> 0]
    ELSE [ok |-> TRUE, bytes |-> file[1]]

\* what the future of piece i resolves to: the bytes it accounts for, the chunk of
\* piece_data and whether the file's stream is chained to it
PieceNoFileBytes(i, mp, is_form, boundary, file) ==
    LET head == PieceHead(i, mp, is_form, boundary)
    IN  IF ~PieceOk(mp, is_form) THEN [ok |-> FALSE, bytes |-> 0, data |-> <<>>, file |-> FALSE]
        ELSE IF mp.is_file
        THEN [ok |-> CreateFileHyperBody(file).ok,
              bytes |-> ByteLen(head),
              data |-> head, file |-> TRUE]
        ELSE [ok |-> TRUE, bytes |-> ByteLen(head \o mp.body),
              data |-> head \o mp.body, file |-> FALSE]

Piece(i, mp, is_form, boundary, file) ==
    LET head == PieceHead(i, mp, is_form, boundary)
    IN  IF ~PieceOk(mp, is_form) THEN [ok |-> FALSE, bytes |-> 0, data |-> <<>>, file |-> FALSE]
        ELSE IF mp.is_file
        THEN [ok |-> CreateFileHyperBody(file).ok,
              bytes |-> CreateFileHyperBody(file).bytes + ByteLen(head),
              data |-> head, file |-> TRUE]
        ELSE [ok |-> TRUE, bytes |-> ByteLen(head \o mp.body),
              data |-> head \o mp.body, file |-> FALSE]

\* what piece i adds to body_value2 under copy_body_value
PieceBodyValue(i, mp, is_form, boundary) ==
    IF ~PieceOk(mp, is_form) THEN <<>>
    ELSE IF mp.is_file
    THEN PieceHead(i, mp, is_form, boundary)
         \o <<"<<contents of file: ">> \o mp.body \o <<">>">>
    ELSE PieceHead(i, mp, is_form, boundary) \o mp.body

RECURSIVE BodyValue2(_, _, _, _)
BodyValue2(pieces, i, is_form, boundary) ==
    IF i > Len(pieces) THEN <<>>
    ELSE PieceBodyValue(i, pieces[i], is_form, boundary)
         \o BodyValue2(pieces, i + 1, is_form, boundary)

\* the fold over the pieces' results: the closing boundary's length plus the
\* bytes of every piece
RECURSIVE FoldBytes(_, _, _)
FoldBytes(closing, results, i) ==
    IF i > Len(results) THEN ByteLen(closing)
    ELSE results[i].bytes + FoldBytes(closing, results, i + 1)

\* no call has been made
NoMultipartResult(ct) ==
    [state |-> "none", ct |-> ct, boundary |-> "", bytes |-> 0, streams |-> <<>>,
     closing |-> <<>>, body_value |-> None]

\* as_hyper_body with a boundary from the generator: the content-type entry, the
\* body_value and the future's result
AsHyperBody(in, boundary) ==
    LET rw == ContentTypeRewrite(in.ct, boundary)
        closing == ClosingBoundary(boundary)
        results == [i \in DOMAIN in.pieces |->
                       Piece(i, in.pieces[i], rw.is_form, boundary, in.file)]
        body_value == IF in.copy_body_value
                      THEN Some(BodyValue2(in.pieces, 1, rw.is_form, boundary) \o closing)
                      ELSE None
    IN  IF ~rw.ok
        THEN [NoMultipartResult(rw.ct) EXCEPT !.state = "Err", !.boundary = boundary]
        ELSE IF \E i \in DOMAIN results : ~results[i].ok
        THEN [NoMultipartResult(rw.ct) EXCEPT !.state = "Err", !.boundary = boundary,
                                              !.body_value = body_value]
        ELSE [state |-> "Ok", ct |-> rw.ct, boundary |-> boundary,
              bytes |-> FoldBytes(closing, results, 1),
              streams |-> results, closing |-> closing, body_value |-> body_value]

\* the reads of a file's stream take at most this many bytes: buf.reserve(8 * (1 << 10))
ReadBufSize == 8192

\* the body stream not yet polled
NewSink == [i |-> 1, phase |-> "data", offset |-> 0, closed |-> FALSE, ended |-> FALSE,
            count |-> 0]

\* one poll of the body stream, where a read of a file finds n bytes: the pieces'
\* streams in order, a file's stream until a read finds nothing, then the closing
\* boundary, then the end; the sink counts the bytes of the chunk
RECURSIVE BodyPoll(_, _, _, _)
BodyPoll(res, file, sink, n) ==
    IF sink.i > Len(res.streams)
    THEN IF sink.closed THEN [sink EXCEPT !.ended = TRUE]
         ELSE [sink EXCEPT !.closed = TRUE, !.count = @ + ByteLen(res.closing)]
    ELSE IF sink.phase = "data"
    THEN IF res.streams[sink.i].file
         THEN [sink EXCEPT !.phase = "file", !.offset = 0,
                           !.count = @ + ByteLen(res.streams[sink.i].data)]
         ELSE [sink EXCEPT !.i = @ + 1,
                           !.count = @ + ByteLen(res.streams[sink.i].data)]
    ELSE IF sink.offset = file[1]
    THEN BodyPoll(res, file, [sink EXCEPT !.i = @ + 1, !.phase = "data", !.offset = 0], n)
    ELSE [sink EXCEPT !.offset = @ + n, !.count = @ + n]

\* the parts of the model: a text part, a file part, a part with its own
\* Content-Disposition and a second header, and a part whose header value is refused
TextPart == [name |-> "note", is_file |-> FALSE, headers |-> <<>>, body |-> <<"hello">>]

FilePart == [name |-> "f", is_file |-> TRUE, headers |-> <<>>, body |-> <<"payload.bin">>]

HeaderPart ==
    [name |-> "h", is_file |-> FALSE,
     headers |-> <<[k |-> "Content-Disposition", v |-> <<"inline">>],
                   [k |-> "x-a", v |-> <<"1">>]>>,
     body |-> <<"{}">>]

BadPart ==
    [name |-> "bad", is_file |-> FALSE,
     headers |-> <<[k |-> "x-a", v |-> <<"\n">>]>>, body |-> <<>>]

Parts == {TextPart, FilePart, HeaderPart, BadPart}

\* the content-type header of the request before the call
ContentTypes ==
    {None, Some(<<"multipart/", "form-data">>), Some(<<"multipart/", "mixed">>),
     Some(<<"multipart/", "form-data", ";boundary=", "x">>),
     Some(<<"text/", "plain">>), Some(<<ObsText>>)}

\* the file a file part names: missing, or of some length
Files == {None} \cup {Some(n) : n \in 0..MaxFileBytes}

MultipartInputs ==
    [ct : ContentTypes,
     pieces : UNION {[1..n -> Parts] : n \in 0..MaxParts},
     copy_body_value : BOOLEAN,
     file : Files]

\* no multipart body is part of the run
MultipartIdle ==
    /\ mpIn = [ct |-> None, pieces |-> <<>>, copy_body_value |-> FALSE, file |-> None]
    /\ mpRes = [NoMultipartResult(None) EXCEPT !.state = "Err"]
    /\ mpSink = NewSink

InitMultipartBody ==
    /\ mpIn \in MultipartInputs
    /\ mpRes = NoMultipartResult(mpIn.ct)
    /\ mpSink = NewSink

\* body.as_hyper_body(..) is called and its future resolves
MultipartCall ==
    /\ mpRes.state = "none"
    /\ \E boundary \in Boundaries : mpRes' = AsHyperBody(mpIn, boundary)
    /\ UNCHANGED <<mpIn, mpSink>>

\* the body stream is polled and the sink counts the chunk
MultipartPoll ==
    /\ mpRes.state = "Ok"
    /\ ~mpSink.ended
    /\ \E n \in 1..Min(ReadBufSize, MaxFileBytes) :
          /\ (mpSink.phase = "file" /\ mpSink.offset < mpIn.file[1])
                 => n <= mpIn.file[1] - mpSink.offset
          /\ (mpSink.phase # "file" \/ mpSink.offset = mpIn.file[1]) => n = 1
          /\ mpSink' = BodyPoll(mpRes, mpIn.file, mpSink, n)
    /\ UNCHANGED <<mpIn, mpRes>>

NextMultipart ==
    \/ MultipartCall /\ UNCHANGED notMultipart
    \/ MultipartPoll /\ UNCHANGED notMultipart

-----------------------------------------------------------------------------
(* The producer tasks of the file, literal and range providers
   (providers.rs 42-149, 301-307) and the receiver streams a consumer zips *)

\* the task spawned as prime_tx: the stream's state, the item Forward holds back,
\* and what the task has sent so far
NewTask(kind, items) ==
    [kind |-> kind, items |-> items, orig |-> items, i |-> 0, buffered |-> None,
     sent |-> <<>>, state |-> "running"]

\* RepeaterStream::poll: the value at i, and i moved on modulo the length (0 for
\* an empty list); None, the end of the stream, when there is no value at i
RepeaterStreamPollNoWrap(t) ==
    [res |-> IF t.i < Len(t.items) THEN "item" ELSE "end",
     v |-> IF t.i < Len(t.items) THEN t.items[t.i + 1] ELSE 0,
     t |-> [t EXCEPT !.i = t.i + 1]]

RepeaterStreamPoll(t) ==
    [res |-> IF t.i < Len(t.items) THEN "item" ELSE "end",
     v |-> IF t.i < Len(t.items) THEN t.items[t.i + 1] ELSE 0,
     t |-> [t EXCEPT !.i = IF Len(t.items) = 0 THEN 0 ELSE (t.i + 1) % Len(t.items)]]

\* into_stream(iter) and stream::iter_ok(range): the next item of the iterator; an
\* Err item of a file reader is the stream's error
IterStreamPoll(t) ==
    IF t.items = <<>> THEN [res |-> "end", v |-> 0, t |-> t]
    ELSE IF Head(t.items) = ErrItem
    THEN [res |-> "err", v |-> 0, t |-> [t EXCEPT !.items = Tail(@)]]
    ELSE [res |-> "item", v |-> Head(t.items), t |-> [t EXCEPT !.items = Tail(@)]]

\* the stream a provider's task forwards
StreamPoll(t) ==
    IF t.kind = "literals" THEN RepeaterStreamPoll(t) ELSE IterStreamPoll(t)

\* stream.forward(tx2).poll(): a buffered item is sent first; then items are taken
\* from the stream and sent until the stream ends (Ready), the stream fails
\* (StreamErr), the channel is full (NotReady, the item stays buffered) or the
\* channel is closed (SinkErr)
RECURSIVE ForwardPoll(_, _)
ForwardPoll(t, ch) ==
    IF t.buffered # None
    THEN LET r == TrySend(ch, t.buffered[1])
         IN  CASE r.state = "Full" -> [t |-> t, ch |-> ch, res |-> "NotReady"]
               [] r.state = "Closed" ->
                      [t |-> [t EXCEPT !.buffered = None], ch |-> ch, res |-> "SinkErr"]
               [] r.state = "Success" ->
                      ForwardPoll([t EXCEPT !.buffered = None,
                                            !.sent = Append(@, t.buffered[1])], r.ch)
    ELSE LET p == StreamPoll(t)
         IN  CASE p.res = "err" -> [t |-> p.t, ch |-> ch, res |-> "StreamErr"]
               [] p.res = "end" -> [t |-> p.t, ch |-> ch, res |-> "Ready"]
               [] p.res = "item" -> ForwardPoll([p.t EXCEPT !.buffered = Some(p.v)], ch)

\* the file provider's or_else: an error with an inner TestError is posted to the
\* test-killer, a bare ChannelClosed is not
FileOrElseNeverPosts(res) ==
    CASE res = "StreamErr" -> [state |-> "failed", post |-> FALSE]
      [] res = "SinkErr" -> [state |-> "closed", post |-> FALSE]
      [] res = "Ready" -> [state |-> "done", post |-> FALSE]
      [] OTHER -> [state |-> "running", post |-> FALSE]

FileOrElseAlwaysPosts(res) ==
    CASE res = "StreamErr" -> [state |-> "failed", post |-> TRUE]
      [] res = "SinkErr" -> [state |-> "closed", post |-> TRUE]
      [] res = "Ready" -> [state |-> "done", post |-> FALSE]
      [] OTHER -> [state |-> "running", post |-> FALSE]

FileOrElse(res) ==
    CASE res = "StreamErr" -> [state |-> "failed", post |-> TRUE]
      [] res = "SinkErr" -> [state |-> "closed", post |-> FALSE]
      [] res = "Ready" -> [state |-> "done", post |-> FALSE]
      [] OTHER -> [state |-> "running", post |-> FALSE]

\* the literal and range providers' then(|_| Ok(())): every outcome ends the task,
\* nothing is posted
ThenOk(res) ==
    CASE res = "SinkErr" -> [state |-> "closed", post |-> FALSE]
      [] res = "Ready" -> [state |-> "done", post |-> FALSE]
      [] res = "StreamErr" -> [state |-> "failed", post |-> FALSE]
      [] OTHER -> [state |-> "running", post |-> FALSE]

\* how a poll of prime_tx ends
PrimeTxOutcome(kind, res) == IF kind = "file" THEN FileOrElse(res) ELSE ThenOk(res)

\* range.0.map(json::Value::from): the numbers first..=last
RangeItemsExclusive(first, last) == [i \in 1..(last - first) |-> first + i - 1]

RangeItems(first, last) == [i \in 1..(last + 1 - first) |-> first + i - 1]

\* a receiver stream's poll: the oldest value, NotReady while a sender is alive,
\* the end once the channel is empty and the senders are gone
ReceiverPoll(ch, senders) ==
    IF ch.buf # <<>> THEN "item" ELSE IF senders = {} THEN "end" ELSE "NotReady"

\* zip_all over the receiver streams: every stream that has not yet yielded for
\* the current tick is polled; the tick is yielded once every slot is full; a
\* stream's end ends the zip
ZipAllValues(z, chans, senders) ==
    LET names == DOMAIN z.slot
        polled == {n \in names : z.slot[n] = None}
        got == {n \in polled : ReceiverPoll(chans[n], senders[n]) = "item"}
        ended == {n \in polled : ReceiverPoll(chans[n], senders[n]) = "end"}
        slot == [n \in names |-> IF n \in got THEN Some(Head(chans[n].buf))
                                 ELSE z.slot[n]]
        chans2 == [n \in names |-> IF n \in got THEN Receive(chans[n]) ELSE chans[n]]
    IN  IF ended # {}
        THEN [z |-> [z EXCEPT !.slot = slot, !.state = "ended"], chans |-> chans2,
              tick |-> None]
        ELSE IF \A n \in names : slot[n] # None
        THEN [z |-> [z EXCEPT !.slot = [n \in names |-> None]], chans |-> chans2,
              tick |-> Some([n \in names |-> slot[n][1]])]
        ELSE [z |-> [z EXCEPT !.slot = slot], chans |-> chans2, tick |-> None]

\* no provider task is part of the run
ProvIdle ==
    /\ primeTx = <<>>
    /\ provChan = <<>>
    /\ provTx = <<>>
    /\ zipped = [slot |-> <<>>, state |-> "dropped"]
    /\ zipTicks = <<>>

\* the providers named by tasks have just been constructed, each with a channel of
\* its limit, and a consumer zips their receiver streams
ProvCreated(tasks, limits) ==
    /\ primeTx = tasks
    /\ provChan = [n \in DOMAIN tasks |-> NewChannel(limits[n])]
    /\ provTx = [n \in DOMAIN tasks |-> {"provider", "task"}]
    /\ zipped = [slot |-> [n \in DOMAIN tasks |-> None], state |-> "open"]
    /\ zipTicks = <<>>

\* the executor polls the task of provider n
TaskPoll(n) ==
    /\ primeTx[n].state = "running"
    /\ LET f == ForwardPoll(primeTx[n], provChan[n])
           o == PrimeTxOutcome(primeTx[n].kind, f.res)
       IN  /\ primeTx' = [primeTx EXCEPT ![n] = [f.t EXCEPT !.state = o.state]]
           /\ provChan' = [provChan EXCEPT ![n] = f.ch]
           /\ provTx' = [provTx EXCEPT ![n] = IF o.state = "running" THEN @
                                               ELSE @ \ {"task"}]
           /\ killer' = IF o.post THEN KillerSend(killer, "file", "Other") ELSE killer
    /\ UNCHANGED <<zipped, zipTicks>>

\* the consumer polls its zipped streams
ZipPoll ==
    /\ zipped.state = "open"
    /\ LET r == ZipAllValues(zipped, provChan, provTx)
       IN  /\ zipped' = r.z
           /\ provChan' = r.chans
           /\ zipTicks' = IF r.tick = None THEN zipTicks ELSE Append(zipTicks, r.tick[1])
    /\ UNCHANGED <<primeTx, provTx, killer>>

\* the consumer polls while it has taken fewer than MaxConsumed ticks
ZipPollBounded ==
    /\ Len(zipTicks) < MaxConsumed
    /\ ZipPoll

\* the receivers of provider n's channel all go away: the channel is closed
ProvReceiverDrop(n) ==
    /\ provChan[n].rx > 0
    /\ provChan' = [provChan EXCEPT ![n].rx = 0]
    /\ zipped' = [zipped EXCEPT !.state = "dropped"]
    /\ UNCHANGED <<primeTx, provTx, zipTicks, killer>>

\* the Provider of n, and with it the Sender it holds, is dropped
ProviderDrop(n) ==
    /\ "provider" \in provTx[n]
    /\ provTx' = [provTx EXCEPT ![n] = @ \ {"provider"}]
    /\ UNCHANGED <<primeTx, provChan, zipped, zipTicks, killer>>

\* the consumer, its zip ended, drops its receiver streams
ZipDrop ==
    /\ zipped.state = "ended"
    /\ \E n \in DOMAIN provChan : provChan[n].rx > 0
    /\ provChan' = [n \in DOMAIN provChan |-> [provChan[n] EXCEPT !.rx = 0]]
    /\ UNCHANGED <<primeTx, provTx, zipped, zipTicks, killer>>

\* the item sequences a file's reader can yield: position i holds the value i or
\* an Err
FileItems == {BSItems(f) : f \in UNION {[1..n -> BOOLEAN] : n \in 0..MaxFileItems}}

FileLimits == {LimitInteger(1), LimitInteger(2), LimitAuto}

\* providers::file(template, test_killer, config_path) has returned
FileCreated ==
    /\ \E items \in FileItems, l \in FileLimits :
          ProvCreated([n \in {"f"} |-> NewTask("file", items)], [n \in {"f"} |-> l])
    /\ LogIdle

NextFile ==
    \/ TaskPoll("f") /\ UNCHANGED notProv
    \/ ZipPoll /\ UNCHANGED notProv
    \/ ProvReceiverDrop("f") /\ UNCHANGED notProv
    \/ ProviderDrop("f") /\ UNCHANGED notProv

\* the values of the literal providers of the model
LiteralValues == <<"a", "b", "c">>

\* providers::literals(values, None) has returned, for a list of K values
LiteralsCreated ==
    /\ \E k \in 0..MaxLiterals :
          ProvCreated([n \in {"names"} |-> NewTask("literals", SubSeq(LiteralValues, 1, k))],
                      [n \in {"names"} |-> LimitAuto])
    /\ LogIdle

NextLiterals ==
    \/ TaskPoll("names") /\ UNCHANGED notProv
    \/ ZipPollBounded /\ UNCHANGED notProv
    \/ ProvReceiverDrop("names") /\ UNCHANGED notProv
    \/ ProviderDrop("names") /\ UNCHANGED notProv

\* ids = range(1..=3)
RangeFirst == 1

RangeLast == 3

\* names = literals(["a", "b"]) and ids = range(1..=3) have been constructed and an
\* endpoint zips the two receiver streams
RangeCreated ==
    /\ ProvCreated([n \in {"ids", "names"} |->
                       IF n = "ids" THEN NewTask("range", RangeItems(RangeFirst, RangeLast))
                       ELSE NewTask("literals", SubSeq(LiteralValues, 1, 2))],
                   [n \in {"ids", "names"} |-> LimitAuto])
    /\ LogIdle

NextRange ==
    \/ TaskPoll("ids") /\ UNCHANGED notProv
    \/ TaskPoll("names") /\ UNCHANGED notProv
    \/ ZipPoll /\ UNCHANGED notProv
    \/ ProviderDrop("ids") /\ UNCHANGED notProv
    \/ ProviderDrop("names") /\ UNCHANGED notProv
    \/ ZipDrop /\ UNCHANGED notProv

-----------------------------------------------------------------------------
(* The specifications: one per subsystem *)

InitBS ==
    /\ \E f \in BSSequences, l \in BSLimits, cb \in BOOLEAN :
          BSCreated(BSItems(f), NewChannel(l), cb)
    /\ BuildIdle
    /\ ODIdle
    /\ EPIdle
    /\ LogIdle
    /\ UtilIdle
    /\ StartIdle
    /\ MultipartIdle
    /\ ProvIdle

SpecBS == InitBS /\ [][NextBS]_vars

InitBuild ==
    /\ cfg \in Configs
    /\ ep = NoEndpoint
    /\ chRx = [n \in Providers |-> 1]
    /\ lastPoll = NoPoll
    /\ lastItem = NoItem
    /\ BSIdle
    /\ ODIdle
    /\ EPIdle
    /\ LogIdle
    /\ UtilIdle
    /\ StartIdle
    /\ MultipartIdle
    /\ ProvIdle

SpecBuild == InitBuild /\ [][NextBuild]_vars

InitOD ==
    /\ InitGate
    /\ BSIdle
    /\ BuildIdle
    /\ EPIdle
    /\ LogIdle
    /\ UtilIdle
    /\ StartIdle
    /\ MultipartIdle
    /\ ProvIdle

SpecOD == InitOD /\ [][NextOD]_vars

Init ==
    /\ InitDriver
    /\ chRx = [n \in Providers |-> 0]
    /\ lastPoll = NoPoll
    /\ lastItem = NoItem
    /\ BSIdle
    /\ ODIdle
    /\ LogIdle
    /\ UtilIdle
    /\ StartIdle
    /\ MultipartIdle
    /\ ProvIdle

Spec == Init /\ [][Next]_vars

InitLog ==
    /\ InitLogger
    /\ BSIdle
    /\ BuildIdle
    /\ ODIdle
    /\ EPIdle
    /\ UtilIdle
    /\ StartIdle
    /\ MultipartIdle
    /\ ProvIdle

SpecLog == InitLog /\ [][NextLog]_vars

InitTerm ==
    /\ InitTermStream
    /\ BSIdle
    /\ EPIdle
    /\ LogIdle
    /\ UtilIdle
    /\ StartIdle
    /\ MultipartIdle
    /\ ProvIdle

\* the driver polls the endpoint's stream again and again
SpecTermFair == InitTerm /\ [][NextTerm]_vars /\ WF_vars(TermPoll /\ UNCHANGED notTerm)

\* the logger task and its producers alone; the task is scheduled whenever its
\* channel holds a value
NextLogger ==
    \/ LogSend /\ UNCHANGED notLog
    \/ LogCreate /\ UNCHANGED notLog
    \/ LogStep /\ UNCHANGED notLog

SpecLogFair == InitLog /\ [][NextLogger]_vars /\ WF_vars(LogStep /\ UNCHANGED notLog)

InitUtil ==
    /\ InitUtilCalls
    /\ BSIdle
    /\ BuildIdle
    /\ ODIdle
    /\ EPIdle
    /\ LogIdle
    /\ StartIdle
    /\ MultipartIdle
    /\ ProvIdle

SpecUtil == InitUtil /\ [][NextUtil]_vars

InitStart ==
    /\ cfg \in Configs
    /\ ep = NoEndpoint
    /\ chRx = [n \in Providers |-> 1]
    /\ lastPoll = NoPoll
    /\ lastItem = NoItem
    /\ StartIdle
    /\ BSIdle
    /\ ODIdle
    /\ EPIdle
    /\ LogIdle
    /\ UtilIdle
    /\ MultipartIdle
    /\ ProvIdle

SpecStart == InitStart /\ [][NextStart]_vars

InitMultipart ==
    /\ InitMultipartBody
    /\ BSIdle
    /\ BuildIdle
    /\ ODIdle
    /\ EPIdle
    /\ LogIdle
    /\ UtilIdle
    /\ StartIdle
    /\ ProvIdle

SpecMultipart == InitMultipart /\ [][NextMultipart]_vars

InitFile ==
    /\ FileCreated
    /\ BSIdle
    /\ BuildIdle
    /\ ODIdle
    /\ EPIdle
    /\ UtilIdle
    /\ StartIdle
    /\ MultipartIdle

SpecFile ==
    /\ InitFile
    /\ [][NextFile]_vars

InitLiterals ==
    /\ LiteralsCreated
    /\ BSIdle
    /\ BuildIdle
    /\ ODIdle
    /\ EPIdle
    /\ UtilIdle
    /\ StartIdle
    /\ MultipartIdle

SpecLiterals ==
    /\ InitLiterals
    /\ [][NextLiterals]_vars

InitRange ==
    /\ RangeCreated
    /\ BSIdle
    /\ BuildIdle
    /\ ODIdle
    /\ EPIdle
    /\ UtilIdle
    /\ StartIdle
    /\ MultipartIdle

\* the tasks and the consumer are polled while they can make progress, and the
\* Providers are dropped once the endpoints are built
SpecRangeFair ==
    /\ InitRange
    /\ [][NextRange]_vars
    /\ WF_vars(NextRange)

\* a BlockSender over values that are all Ok and a file provider, each with a
\* channel its receivers can leave
InitClosed ==
    /\ \E n \in 0..MaxSeq :
          BSCreated([i \in 1..n |-> i], NewChannel(LimitInteger(1)), FALSE)
    /\ FileCreated
    /\ BuildIdle
    /\ ODIdle
    /\ EPIdle
    /\ UtilIdle
    /\ StartIdle
    /\ MultipartIdle

NextClosed ==
    \/ BSPoll /\ UNCHANGED notBS
    \/ BSDrop /\ UNCHANGED notBS
    \/ BSConsumerRecv /\ UNCHANGED notBS
    \/ BSReceiverDrop /\ UNCHANGED notBS
    \/ TaskPoll("f") /\ UNCHANGED notProv
    \/ ZipPoll /\ UNCHANGED notProv
    \/ ProvReceiverDrop("f") /\ UNCHANGED notProv

SpecClosed == InitClosed /\ [][NextClosed]_vars

-----------------------------------------------------------------------------
(* Claims about the BlockSender *)

\* C2: the target channel of a Block-mode capture never holds more values than its
\* current capacity, and a value refused with Full is kept by the sender in
\* last_value and has not been inserted.
C2_BlockNeverExceedsCapacity ==
    /\ Len(target.buf) <= Capacity(target)
    /\ (bsRes = "NotReady" /\ ~bsDropped) =>
          /\ bsLast # None
          /\ bsLast[1] \notin Range(target.buf)
          /\ bsLast[1] \notin Range(bsSent)
          /\ bsLast[1] \in Range(bsOrig)

\* the sender holds a refused value while the channel is at its capacity of 2,
\* after an earlier value of the same sender went in
C2_Witness ==
    /\ bsRes = "NotReady"
    /\ ~bsDropped
    /\ bsLast # None
    /\ bsSent # <<>>
    /\ Capacity(target) = 2
    /\ Len(target.buf) = 2

\* C9: a sender with cb attached invokes it exactly once over its lifetime, at the
\* drop that ends it, and with true exactly when some try_send returned Success.
C9_CbExactlyOnce ==
    /\ (bsCb /\ bsDropped) =>
          /\ Len(cbCalls) = 1
          /\ cbCalls[1] <=> (bsSuccess > 0)
    /\ (~bsCb \/ ~bsDropped) => cbCalls = <<>>

\* dropped while pending, and the drop's own poll inserted the value that was held
C9_Witness ==
    /\ bsCb
    /\ bsDropped
    /\ bsRes = "NotReady"
    /\ bsLast = None
    /\ bsSuccess = 1
    /\ cbCalls = <<TRUE>>

-----------------------------------------------------------------------------
(* Claims about Builder::build *)

\* C6: on an endpoint built with no_auto_returns = true no stream item carries an
\* AutoReturn: a TemplateValue has none and a Declare has an empty list, whatever
\* the auto_return settings of the providers are.
C6_NoAutoReturnConstructed ==
    (ep.built /\ ep.no_auto_returns) => lastItem.ar = <<>>

\* C10: the sentinel sits at index 0 exactly when the endpoint was built without a
\* start stream and with provides; each poll of it yields StreamItem::None while some
\* provides channel has a receiver and ends when none has.
C10_SentinelYieldsUntilNoReceivers ==
    ep.built =>
        /\ (~cfg.start_stream /\ DOMAIN cfg.provides # {})
              <=> (ep.stream_collection # <<>> /\ ep.stream_collection[1].kind = "sentinel")
        /\ \A i \in DOMAIN ep.stream_collection :
              i > 1 => ep.stream_collection[i].kind \notin {"sentinel", "start"}
        /\ cfg.start_stream => ep.stream_collection[1].kind = "start"
        /\ lastPoll.res # "none" =>
              (lastPoll.res = "item" <=> \E n \in DOMAIN cfg.provides : lastPoll.rx[n] > 0)
        /\ lastPoll.res = "end" => \A n \in DOMAIN cfg.provides : lastPoll.rx[n] = 0

\* the sentinel of an endpoint with two provides still yields after one of the two
\* channels lost its receivers
C10_Witness ==
    /\ ep.built
    /\ DOMAIN cfg.provides = Providers
    /\ lastPoll.res = "item"
    /\ \E n \in Providers : lastPoll.rx[n] = 0

-----------------------------------------------------------------------------
(* Claims about the on-demand gate *)

\* C7: the zipped streams are polled only under a received trigger; the trigger stays
\* held exactly while the zipped poll is pending and is consumed once the zipped
\* poll yields a tick, the end or an error; so the ticks yielded never exceed the
\* triggers received.
C7_TicksWithinTriggers ==
    /\ ~odLog.unheld
    /\ gate.od_continue <=> odLog.last = "NotReady"
    /\ odLog.last \in {"Some", "None", "Err"} => ~gate.od_continue
    /\ odLog.ticks + (IF gate.od_continue THEN 1 ELSE 0) <= odLog.accepted
    /\ odLog.accepted <= odLog.received
    /\ odLog.received <= od.delivered

\* after one tick, a second trigger is held while the zipped streams are pending
C7_Witness ==
    /\ gate.od_continue
    /\ odLog.ticks = 1
    /\ odLog.accepted = 2
    /\ odLog.last = "NotReady"

\* C8: with provider values always available every trigger the on-demand streams
\* deliver results in one tick: none is discarded while an earlier trigger is held,
\* and once all triggers are delivered and handled there are as many ticks as triggers.
C8_EveryTriggerOneTick ==
    (zip.always[2] /\ gate.state = "running") =>
        /\ odLog.received = odLog.accepted
        /\ (od.delivered = MaxTriggers /\ od.pending = 0 /\ ~gate.od_continue)
              => odLog.ticks = MaxTriggers

\* the ticks admitted since a consumer took one value from the full channel of
\* captured values, failed ticks (which capture nothing) left out
AdmittedSinceDrain ==
    IF driver.mark = None THEN {}
    ELSE {t \in TickIds : /\ t > driver.mark[1]
                          /\ ticks[t].st # "idle"
                          /\ ticks[t].out \notin {"timeout", "error"}}

\* the ticks that are done and carried an AutoReturn
DoneWithAutoReturn == {t \in TickIds : ticks[t].st = "done" /\ ticks[t].ar # None}

\* the ticks whose request timed out and that are done
TimedOut == {t \in TickIds : ticks[t].st = "done" /\ ticks[t].out = "timeout"}

\* C1: when max_parallel_requests is set to M, the number of ticks in flight
\* (handed to send_request and not yet completed) is at most M in every state
C1_InFlightWithinMaxParallel ==
    cfg.max_parallel_requests # None =>
        Cardinality(InFlight(ticks)) <= cfg.max_parallel_requests[1]

\* M = 2 ticks are in flight while the provider holds a further value, no Block
\* target is full and the stream has not ended: only the bound withholds the tick
C1_Witness ==
    /\ cfg.max_parallel_requests = Some(2)
    /\ Cardinality(InFlight(ticks)) = 2
    /\ driver.state = "running" /\ driver.admitted < MaxTicks
    /\ chan["p"].buf # <<>>
    /\ chan["q"].rx > 0
    /\ ~BlockTargetFull(cfg, chan)

C4_ConsumedOrReturned ==
    \A t \in TickIds :
        ticks[t].ar # None =>
            /\ ~(ticks[t].consumed /\ ticks[t].returned # "no")
            /\ ticks[t].st = "done" =>
                   /\ ticks[t].consumed <=> ticks[t].returned = "no"
                   /\ ticks[t].consumed <=> ticks[t].out = "ok"
                   /\ (~ticks[t].consumed /\ cfg.auto_return["p"][1] \in {"block", "force"})
                          => ticks[t].returned = "inserted"

\* one tick consumed its value, another failed and its value went back under Block
C4_Witness ==
    /\ cfg.auto_return["p"] = Some("block")
    /\ \E t \in DoneWithAutoReturn : ticks[t].consumed /\ ticks[t].v \notin Range(chan["p"].buf)
    /\ \E t \in DoneWithAutoReturn : ticks[t].returned = "inserted" /\ ticks[t].bs.sent = <<ticks[t].v>>

\* C5 as stated: after a timeout nothing of the tick is captured or logged, the
\* value it took with an AutoReturn is back in the provider channel, and the
\* endpoint keeps running
C5_TimeoutRestoresValue ==
    \A t \in TimedOut :
        /\ ~ticks[t].captured /\ t \notin epLog.logged
        /\ ticks[t].ar # None => ticks[t].returned = "inserted"
        /\ driver.state = "ended" => chan["q"].rx = 0

\* C5, amended: after a timeout nothing of the tick is captured or logged, the
\* value it took with an AutoReturn is returned per the send behaviour (back in
\* the channel under Block and Force, under IfNotFull only if the channel had
\* room, never under NoOp), and the endpoint keeps running
C5_TimeoutReturnsPerBehavior ==
    \A t \in TimedOut :
        /\ ~ticks[t].captured /\ t \notin epLog.logged
        /\ ticks[t].ar # None =>
               /\ ~ticks[t].consumed
               /\ cfg.auto_return["p"][1] \in {"block", "force"}
                      => ticks[t].returned = "inserted"
               /\ cfg.auto_return["p"][1] = "if_not_full"
                      => (ticks[t].returned = "inserted" <=> ticks[t].room)
               /\ cfg.auto_return["p"][1] = "no_op" => ticks[t].returned = "dropped"
        /\ driver.state = "ended" => chan["q"].rx = 0

\* a tick timed out under Block, its value is back in the provider channel, and a
\* later tick has been admitted
C5_Witness ==
    \E t \in TimedOut :
        /\ cfg.auto_return["p"] = Some("block")
        /\ ticks[t].ar # None
        /\ ticks[t].v \in Range(chan["p"].buf)
        /\ driver.admitted > t

-----------------------------------------------------------------------------
(* Claims about the termination of a sentinel-paced endpoint *)

\* C11: once the provides channel of an endpoint without start stream has no
\* receivers, the endpoint's stream eventually ends, also when the provider stream
\* never yields again and when the endpoint is gated by on-demand triggers
C11_TerminatesWithoutReceivers ==
    (chRx["q"] = 0) ~> (gate.state # "running")

-----------------------------------------------------------------------------
(* Claims about the zipped input streams *)

\* C12: every tick has taken exactly one item from every input stream, a poll that
\* finds an input stream ended yields no tick, and the endpoint's stream ends with it
C12_TickNeedsEveryStream ==
    /\ \A i \in ZipStreams :
          zip.taken[i] = odLog.ticks + (IF zip.slot[i] THEN 1 ELSE 0)
    /\ odLog.last = "None" => (gate.state = "ended" /\ odLog.sawEnd)
    /\ odLog.last \in {"Some", "NotReady"} => ~odLog.sawEnd
    /\ gate.state = "ended" => ~gate.od_continue

\* one tick was produced, then one stream yielded an item for the second tick and
\* the other ended: the stream has ended and the item is part of no tick
C12_Witness ==
    /\ odLog.ticks = 1
    /\ odLog.last = "None" /\ gate.state = "ended"
    /\ \E i \in ZipStreams : zip.slot[i] /\ zip.taken[i] = 2
    /\ \E i \in ZipStreams : zip.state[i] = "ended" /\ zip.taken[i] = 1

-----------------------------------------------------------------------------
(* Claims about the logger and the test-killer *)

\* the ids of the lines written, in order
WrittenIds == [i \in 1..Len(lgOut) |-> lgOut[i].id]

\* the first n values sent to the logger
FirstIds(n) == [i \in 1..n |-> i]

\* C13: whatever tasks send to the test-killer and in whatever order, the outcome
\* of the run is the first message sent, and every later message is discarded
C13_FirstMessageWins ==
    /\ killer.outcome # None => killer.outcome[1].n = 1
    /\ killer.discarded = killer.sent - Len(killer.queue)
                              - (IF killer.outcome = None THEN 0 ELSE 1)

\* the file provider's error came first and is the outcome; two later messages of
\* the logger have been discarded
C13_Witness ==
    /\ killer.outcome # None
    /\ killer.outcome[1].from = "file"
    /\ killer.discarded >= 2
    /\ lgLog.kills >= 2

\* C14: a logger with limit L and kill = false that has received N values has
\* written the first min(N, L) of them, in order
C14_WritesFirstMinNL ==
    (lg.limit # None /\ ~lg.kill /\ lgLog.werr = None /\ lg.state = "running") =>
        WrittenIds = FirstIds(Min(lg.counter, lg.limit[1]))

\* C15: a logger with limit L and kill = true that has received more than L values
\* has written exactly L of them and has sent KilledByLogger
C15_KillStopsAtLimit ==
    (lg.limit # None /\ lg.kill /\ lgLog.werr = None /\ lg.counter > lg.limit[1]) =>
        /\ Len(lgOut) = lg.limit[1]
        /\ lgLog.kills >= 1

\* C16: a logger with limit L and kill = true sends KilledByLogger exactly once,
\* for the value that makes the counter reach L, and never again
C16_KillOnlyAtEdge ==
    (lg.limit # None /\ lg.kill) =>
        lgLog.kills = (IF lg.counter >= lg.limit[1] /\ lg.counter > 0 THEN 1 ELSE 0)

\* C17: a logger with no limit and kill = true writes each value it receives and
\* sends one KilledByLogger per value; with no limit and kill = false a stdout or
\* stderr logger sends nothing to the test-killer
C17_NoLimitKillEachValue ==
    lg.limit = None =>
        /\ lg.kill =>
               /\ lgLog.kills = lg.counter
               /\ lgLog.werr = None => WrittenIds = FirstIds(lg.counter)
        /\ (~lg.kill /\ lg.to # "file") =>
               /\ lgLog.kills = 0
               /\ \A i \in 1..Len(killer.queue) : killer.queue[i].from # "logger"
               /\ killer.outcome # None => killer.outcome[1].from # "logger"

\* three values received without a limit and with kill: three lines, three messages
C17_Witness ==
    /\ lg.limit = None /\ lg.kill /\ lg.to = "stdout"
    /\ lg.counter = 3
    /\ Len(lgOut) = 3
    /\ lgLog.kills = 3

\* C18: once a logger with kill = false has reached its limit, every value in its
\* channel is eventually removed, and a full channel eventually has room again
C18_DrainsAfterLimit ==
    /\ \A n \in 1..MaxLogValues :
          (~lg.keep_logging /\ lg.state = "running" /\ LogValue(n) \in Range(lgChan.buf))
              ~> (LogValue(n) \notin Range(lgChan.buf))
    /\ (~lg.keep_logging /\ lg.state = "running" /\ Len(lgChan.buf) = LoggerChannelLimit)
              ~> (Len(lgChan.buf) < LoggerChannelLimit)

\* the limit is reached, writing has stopped, and the channel is full
C18_Witness ==
    /\ ~lg.kill /\ ~lg.keep_logging /\ lg.state = "running"
    /\ Len(lgChan.buf) = LoggerChannelLimit
    /\ Len(lgOut) = lg.limit[1]

\* C19: a file logger whose write of a value fails posts TestError::Other to the
\* test-killer and exits without processing a further value, whatever limit and kill
C19_WriteErrorIsFatal ==
    lgLog.werr # None =>
        /\ lg.state = "exited"
        /\ lg.counter = lgLog.werr[1]
        /\ killer.sent > lgLog.kills + (IF lgLog.fileErr THEN 1 ELSE 0)

\* C20: every line a logger writes is the line a stdout or stderr logger writes for
\* the same value and settings: pretty form iff pretty and not a string, else the
\* stringified form with strings unquoted
C20_SameFormOnAllDestinations ==
    \A i \in 1..Len(lgOut) :
        lgOut[i].text = ConsoleLine(lg.pretty, LogValue(lgOut[i].id))

-----------------------------------------------------------------------------
(* The order of a BlockSender's insertions (request.rs 697-727) *)

\* the Ok values of a sequence, in order
OkItems(values) == SelectSeq(values, LAMBDA v : v # ErrItem)

\* the value a Full try_send handed back, as a sequence of zero or one value
HeldBack == IF bsLast = None THEN <<>> ELSE <<bsLast[1]>>

\* C28: the values a BlockSender has inserted are, in order, the first Ok values of
\* its sequence, none skipped and none twice; a value refused with Full is the next
\* one attempted, ahead of the rest of the sequence (only a value met by a closed
\* channel is taken from the sequence without being inserted)
C28_InsertsInSequenceOrder ==
    /\ Len(bsSent) <= Len(OkItems(bsOrig))
    /\ bsSent = SubSeq(OkItems(bsOrig), 1, Len(bsSent))
    /\ bsSuccess = Len(bsSent)
    /\ (bsLast # None \/ ~NoReceivers(target)) =>
           bsSent \o HeldBack \o OkItems(bsValues) = OkItems(bsOrig)

\* a value was refused with Full and is the next one inserted after the first
C28_Witness ==
    /\ Len(bsOrig) = 3 /\ ErrItem \notin Range(bsOrig)
    /\ bsSent = <<1, 2, 3>>
    /\ bsRes = "Ready"
    /\ otherSent = 1
    /\ ~target.limit.auto /\ target.limit.n = 1

\* C29: a BlockSender whose poll returned an error, or that completed, inserts no
\* further value afterwards, dropped or not
C29_NoInsertAfterErrorOrCompletion ==
    [][(bsRes \in {"Err", "Ready"}) => bsSent' = bsSent]_vars

-----------------------------------------------------------------------------
(* Claims about the text forms of a JSON value *)

\* what both functions are to return: the contents of a string as they are, without
\* quotes or escapes, and the compact JSON text of any other value
UnquotedOrCompact(v, text) ==
    /\ IsString(v) => text = v.s
    /\ ~IsString(v) =>
          /\ text = JsonToString(v)
          /\ "\n" \notin Range(text)
    /\ v = TestObject => text = TestObjectText
    /\ v = TestString => text = TestStringText
    /\ v = TestArray => text = TestArrayText

\* C27: json_value_to_string returns the contents of a string unquoted and the
\* compact JSON text of any other value, and json_value_into_string returns the
\* same text for every value
C27_StringFormsAgree ==
    /\ byRef # None => UnquotedOrCompact(value, byRef[1])
    /\ byMove # None => UnquotedOrCompact(value, byMove[1])
    /\ (byRef # None /\ byMove # None) => byRef = byMove

\* both functions were called with a string that holds a double quote
C27_Witness ==
    /\ value = JString(<<"a", "\"">>)
    /\ byRef = Some(<<"a", "\"">>)
    /\ byMove = byRef
    /\ JsonToString(value) = <<"\"", "a", "\\", "\"", "\"">>

-----------------------------------------------------------------------------
(* Claims about add_start_stream *)

\* the positions of the stream collection that hold a pacing stream
PacingPositions == {i \in DOMAIN ep.stream_collection : ep.stream_collection[i].pacing}

\* C30: after build and any number of add_start_stream calls the stream collection
\* holds at most one pacing stream, that stream is the one added last, and the
\* provider and declare streams are the ones build installed, in their order
C30_OnePacingStream ==
    startCalls > 0 =>
        /\ Cardinality(PacingPositions) <= 1
        /\ \A i \in PacingPositions :
               ep.stream_collection[i] = StartStreamEntry(startCalls)
        /\ SelectSeq(ep.stream_collection, LAMBDA e : ~e.pacing)
               = BuildProviderStreams(cfg) \o BuildDeclareStreams(cfg)

-----------------------------------------------------------------------------
(* Claims about the multipart body *)

\* the bytes the parts add up to: per part the boundary line, the header lines,
\* the blank line and the part's body, the file's size for a file part
RECURSIVE PartsLength(_)
PartsLength(i) ==
    IF i > Len(mpIn.pieces) THEN 0
    ELSE LET mp == mpIn.pieces[i]
             form == mpIn.ct = None \/ ~StartsWith(mpIn.ct[1], <<"multipart/">>)
                         \/ StartsWith(mpIn.ct[1], <<"multipart/", "form-data">>)
         IN  ByteLen(PieceHead(i, mp, form, mpRes.boundary))
                 + (IF mp.is_file THEN mpIn.file[1] ELSE ByteLen(mp.body))
                 + PartsLength(i + 1)

\* C25: the content length as_hyper_body returns is the number of bytes the body
\* stream yields: the parts' boundary lines, headers, blank lines and bodies (the
\* file's size for a file part) and the closing boundary
C25_LengthIsBytesStreamed ==
    mpRes.state = "Ok" =>
        /\ mpRes.bytes = PartsLength(1) + Len("\r\n--") + BoundaryLen + Len("--\r\n")
        /\ mpSink.count <= mpRes.bytes
        /\ mpSink.ended => mpSink.count = mpRes.bytes

\* a form of one text part and one file part of two bytes was streamed to its end
C25_Witness ==
    /\ mpIn.pieces = <<TextPart, FilePart>>
    /\ mpIn.ct = None
    /\ mpIn.file = Some(MaxFileBytes)
    /\ mpSink.ended
    /\ mpSink.count = mpRes.bytes
    /\ mpRes.bytes > ByteLen(mpRes.closing) + MaxFileBytes

\* C26: the Content-Type header is rewritten to <ct>;boundary=<b> exactly when it
\* is absent (ct being multipart/form-data) or is multipart/* without a boundary,
\* and is left as it was otherwise
C26_RewriteOnlyWithoutBoundary ==
    mpRes.state # "none" =>
        LET ct == IF mpIn.ct = None THEN <<"multipart/", "form-data">> ELSE mpIn.ct[1]
            rewrite == \/ mpIn.ct = None
                       \/ /\ StartsWith(ct, <<"multipart/">>)
                          /\ ";boundary=" \notin Range(ct)
        IN  IF rewrite
            THEN mpRes.ct = Some(ct \o <<";boundary=", mpRes.boundary>>)
            ELSE mpRes.ct = mpIn.ct

-----------------------------------------------------------------------------
(* Claims about the providers' producer tasks *)

\* the items of a reader before its first Err
RECURSIVE BeforeFirstErr(_)
BeforeFirstErr(items) ==
    IF items = <<>> \/ Head(items) = ErrItem THEN <<>>
    ELSE <<Head(items)>> \o BeforeFirstErr(Tail(items))

\* the values the consumer has got from provider n, in order
Delivered(n) == [i \in 1..Len(zipTicks) |-> zipTicks[i][n]]

\* the values of provider n the consumer has got or can still take: the ticks, the
\* value the zip holds in its slot, and the channel's buffer
OnTheWay(n) ==
    Delivered(n)
        \o (IF zipped.slot[n] = None THEN <<>> ELSE <<zipped.slot[n][1]>>)
        \o provChan[n].buf

\* the messages the file provider has posted to the test-killer
FilePosts == SelectSeq(killer.queue, LAMBDA m : m.from = "file")

\* C21: the file provider forwards the reader's values in file order, none lost and
\* none twice; on the reader's first error it stops and posts exactly one
\* Err(TestError::Other) to the test-killer, and the values sent before it stay
\* delivered
C21_FileOrderAndOneError ==
    LET t == primeTx["f"]
        good == BeforeFirstErr(t.orig)
    IN  /\ Len(t.sent) <= Len(good)
        /\ t.sent = SubSeq(good, 1, Len(t.sent))
        /\ OnTheWay("f") = t.sent
        /\ t.state = "done" => (t.sent = t.orig /\ ErrItem \notin Range(t.orig))
        /\ t.state = "failed" =>
               /\ t.sent = good
               /\ ErrItem \in Range(t.orig)
               /\ Len(FilePosts) = 1
               /\ FilePosts[1].kind = "Other"
               /\ killer.sent = 1
        /\ t.state # "failed" => killer.sent = 0

\* the reader failed on its second item with a third still to read: the first
\* value reached the consumer and one message is with the test-killer
C21_Witness ==
    /\ primeTx["f"].orig = <<1, ErrItem, 3>>
    /\ primeTx["f"].state = "failed"
    /\ primeTx["f"].items = <<3>>
    /\ Delivered("f") = <<1>>
    /\ killer.sent = 1

\* what holds of a literal provider over the list values
CyclesForever(t, values) ==
    /\ t.i < Len(values)
    /\ \A j \in 1..Len(t.sent) : t.sent[j] = values[((j - 1) % Len(values)) + 1]
    /\ OnTheWay("names") = t.sent
    /\ t.state # "running" => (t.state = "closed" /\ NoReceivers(provChan["names"]))

\* C23 as stated: a literal provider over K values yields the list cyclically
\* without end, so that the first N*K values are N copies of the list; the
\* stream's index stays below K; the producer never ends on its own
C23_CyclesForAnyList ==
    CyclesForever(primeTx["names"], primeTx["names"].orig)

\* C23: the same for a list of at least one value
C23_CyclesForNonEmptyList ==
    primeTx["names"].orig # <<>> =>
        CyclesForever(primeTx["names"], primeTx["names"].orig)

\* the consumer has taken two rounds of a list of two values
C23_Witness ==
    /\ primeTx["names"].orig = <<"a", "b">>
    /\ Delivered("names") = <<"a", "b", "a", "b">>
    /\ primeTx["names"].state = "running"

\* the ticks of names = literals(["a", "b"]) zipped with ids = range(1..=3)
ExpectedTicks ==
    <<[ids |-> 1, names |-> "a"], [ids |-> 2, names |-> "b"], [ids |-> 3, names |-> "a"]>>

\* C24: an endpoint that zips names = literals(["a", "b"]) with ids = range(1..=3)
\* gets the ticks (1, a), (2, b), (3, a) in this order, no other, and then ends
C24_ThreeTicksThenEnd ==
    /\ [](/\ Len(zipTicks) <= Len(ExpectedTicks)
          /\ zipTicks = SubSeq(ExpectedTicks, 1, Len(zipTicks))
          /\ zipped.state = "ended" => zipTicks = ExpectedTicks)
    /\ <>(zipped.state = "ended")

\* the zip has ended after its three ticks
C24_Witness ==
    /\ zipped.state = "ended"
    /\ zipTicks = ExpectedTicks
    /\ primeTx["ids"].state = "done"

-----------------------------------------------------------------------------
(* Claims about closed channels *)

\* the next poll of the BlockSender calls try_send
BlockSenderWillSend ==
    bsLast # None \/ (bsValues # <<>> /\ Head(bsValues) # ErrItem)

\* the next poll of the file provider's task calls try_send
FileTaskWillSend ==
    \/ primeTx["f"].buffered # None
    \/ (primeTx["f"].items # <<>> /\ Head(primeTx["f"].items) # ErrItem)

\* C22: a closed channel is the end of the stream and never an error: a
\* BlockSender whose try_send returns Closed completes successfully at once and
\* sends none of its remaining values; the file provider's task whose channel has
\* closed finishes and posts nothing to the test-killer
C22_ClosedIsEndOfStream ==
    /\ [][(BSPoll /\ NoReceivers(target) /\ BlockSenderWillSend)
              => (bsRes' = "Ready" /\ bsSent' = bsSent /\ target' = target)]_vars
    /\ [][NoReceivers(target) => bsSent' = bsSent]_vars
    /\ [][(TaskPoll("f") /\ NoReceivers(provChan["f"]) /\ FileTaskWillSend)
              => (primeTx["f"].state' = "closed" /\ killer' = killer)]_vars
    /\ [](primeTx["f"].state = "closed" => (killer.sent = 0 /\ killer.queue = <<>>))

\* both met a closed channel with values left: the BlockSender completed with two
\* of its three values unsent, the file task finished with an item unread, and the
\* test-killer got nothing
C22_Witness ==
    /\ NoReceivers(target)
    /\ bsRes = "Ready"
    /\ bsOrig = <<1, 2, 3>> /\ bsValues = <<2, 3>> /\ bsSent = <<>>
    /\ NoReceivers(provChan["f"])
    /\ primeTx["f"].state = "closed"
    /\ primeTx["f"].items # <<>>
    /\ killer.sent = 0

====
